---- MODULE Spec2Model ----
(***************************************************************************)
(* Telemetry timeline and playback engine of the F1 telemetry viewer:      *)
(* collect_session_telemetry (src/src/telemetry.py), F1Selector.load_data  *)
(* (src/src/selector.py) and the playback loop of run_viewer with its      *)
(* per-frame snapshot, standings and gap labels (src/src/viewer.py), and   *)
(* the track-status and race-control streams aligned to the timeline with  *)
(* to_epoch_seconds (src/src/helpers.py).  The clock and the standings of  *)
(* the monolithic viewer (run_viewer of src/main.py) are given as          *)
(* operators and compared with the loop step by step.                      *)
(*                                                                         *)
(* Time is counted in units of 1/Resolution second, so that every speed    *)
(* the viewer can hold (0.125 .. 128) and its half are whole numbers.      *)
(* A float is a record [nan, v]: NaN compares false with everything, as in *)
(* IEEE-754, and propagates through arithmetic.                            *)
(***************************************************************************)
EXTENDS Integers, Sequences, FiniteSets, TLC

VARIABLES
    session,        \* the loaded session: its laps with their raw telemetry
                    \* and, where it has them, its status and message streams
    telemetry,      \* result of collect_session_telemetry: [present, rows]
    pc,             \* position of the program
    driver_data,    \* run_viewer: per-driver arrays, sorted by time
    times,          \* run_viewer: sorted unique time offsets
    status_times,   \* run_viewer: offsets of the status events
    status_codes,   \* run_viewer: codes of the status events
    message_times,  \* run_viewer: offsets of the race-control messages
    messages,       \* run_viewer: texts of the race-control messages
    sim_time, playing, speed, point_size, show_labels, running,
    polled,         \* events of the current input poll handled so far
    ev,             \* the event being handled (the loop variable)
    frame,          \* iterations begun so far
    driver_stats,   \* per-driver snapshot of the last rendered frame
    sorted_drivers, \* the ranked drivers of the last rendered frame
    current_lap,    \* the lap count of the last rendered frame
    gap_strs,       \* the gap label of each ranked driver, by rank
    dnf_drivers,    \* the drivers listed as DNF below the ranked ones
    current_status, \* the status code of the last rendered frame, as text
    safety_str,     \* the status label of the last rendered frame
    last_msg        \* the race-control message shown in the last rendered frame

vars == <<session, telemetry, pc, driver_data, times, status_times,
          status_codes, message_times, messages, sim_time, playing, speed,
          point_size, show_labels, running, polled, ev, frame,
          driver_stats, sorted_drivers, current_lap, gap_strs, dnf_drivers,
          current_status, safety_str, last_msg>>

-----------------------------------------------------------------------------
(* Bounds of the model *)

MaxRows == 2        \* raw telemetry rows per lap
MaxFrames == 3      \* iterations of the playback loop
MaxEvents == 2      \* events returned by one input poll
MaxSimTime == 64    \* cap on sim_time where the code itself has no upper bound

-----------------------------------------------------------------------------
(* Floats *)

NaN == [nan |-> TRUE, v |-> 0]
F(n) == [nan |-> FALSE, v |-> n]
FLt(a, b) == ~a.nan /\ ~b.nan /\ a.v < b.v
FLe(a, b) == ~a.nan /\ ~b.nan /\ a.v <= b.v
FGt(a, b) == FLt(b, a)
FGe(a, b) == FLe(b, a)
FAdd(a, b) == IF a.nan \/ b.nan THEN NaN ELSE F(a.v + b.v)
FSub(a, b) == IF a.nan \/ b.nan THEN NaN ELSE F(a.v - b.v)

\* Python's min(a, b) / max(a, b): the first argument unless the second is
\* strictly smaller / larger.
PyMin(a, b) == IF FLt(b, a) THEN b ELSE a
PyMax(a, b) == IF FGt(b, a) THEN b ELSE a

\* ndarray.min(): NaN if any element is NaN.
RECURSIVE NpMin(_)
NpMin(s) ==
    IF Len(s) = 1 THEN s[1]
    ELSE LET m == NpMin(Tail(s))
         IN  IF s[1].nan \/ m.nan THEN NaN
             ELSE IF s[1].v <= m.v THEN s[1] ELSE m

\* Series.min() (skipna): the least non-NaN element, NaN if there is none.
RECURSIVE PdMin(_)
PdMin(s) ==
    IF s = <<>> THEN NaN
    ELSE LET m == PdMin(Tail(s))
         IN  IF s[1].nan THEN m
             ELSE IF m.nan THEN s[1]
             ELSE IF s[1].v <= m.v THEN s[1] ELSE m

\* np.nanmax over an array without NaN-only content.
RECURSIVE NanMax(_)
NanMax(s) ==
    IF s = <<>> THEN NaN
    ELSE LET m == NanMax(Tail(s))
         IN  IF s[1].nan THEN m
             ELSE IF m.nan THEN s[1]
             ELSE IF s[1].v >= m.v THEN s[1] ELSE m

-----------------------------------------------------------------------------
(* Sequences *)

\* s without its i-th element
RemoveAt(s, i) == SubSeq(s, 1, i - 1) \o SubSeq(s, i + 1, Len(s))

RECURSIVE Flatten(_)
Flatten(ss) == IF ss = <<>> THEN <<>> ELSE ss[1] \o Flatten(Tail(ss))

Range(s) == {s[i] : i \in DOMAIN s}

\* all orderings of the elements of a sequence
RECURSIVE Perms(_)
Perms(s) ==
    IF Len(s) <= 1 THEN {s}
    ELSE UNION {{<<s[i]>> \o p :
                   p \in Perms(RemoveAt(s, i))} :
                i \in DOMAIN s}

\* indices of the first occurrences, in order (Series.unique())
RECURSIVE Unique(_)
Unique(s) ==
    IF s = <<>> THEN <<>>
    ELSE LET u == Unique(SubSeq(s, 1, Len(s) - 1))
         IN  IF s[Len(s)] \in Range(u) THEN u ELSE Append(u, s[Len(s)])

-----------------------------------------------------------------------------
(* Input domains: the session handed over by the acquisition layer *)

DriverIds == {"VER", "HAM"}
RawTimes == {32, 48}
LapCounts == 0 .. 2

\* one raw telemetry row: time value, position, Distance column value
RawRow(t, hasPos) ==
    [T |-> t,
     X |-> IF hasPos THEN (IF t.nan THEN F(40) ELSE F(t.v)) ELSE NaN,
     Y |-> IF t.nan THEN F(10) ELSE F(2 * t.v),
     Distance |-> IF t.nan THEN F(700) ELSE F(10 * t.v)]

RowChoices ==
    {RawRow(F(t), TRUE) : t \in RawTimes}
    \cup {RawRow(NaN, TRUE)}
    \cup {RawRow(F(t), FALSE) : t \in {32}}

RowSeqs == UNION {[1 .. n -> RowChoices] : n \in 0 .. MaxRows}

\* what lap.get_telemetry() yields: it raises, or a frame with or without
\* the X/Y columns and with or without a usable time column
LapBodies ==
    {[tel |-> "raise", hasXY |-> TRUE, timed |-> TRUE, rows |-> <<>>],
     [tel |-> "ok", hasXY |-> FALSE, timed |-> TRUE,
      rows |-> <<RawRow(F(32), TRUE)>>],
     [tel |-> "ok", hasXY |-> TRUE, timed |-> FALSE,
      rows |-> <<RawRow(F(32), TRUE)>>]}
    \cup {[tel |-> "ok", hasXY |-> TRUE, timed |-> TRUE, rows |-> rs] :
            rs \in RowSeqs}

TimeCols == {"SessionTime", "Time_datetime"}

MkLap(drv, lapno, body, timeCol, hasDist) ==
    [Driver |-> drv, LapNumber |-> lapno,
     Position |-> IF drv = "VER" THEN F(1) ELSE F(2), tel |-> body.tel,
     hasXY |-> body.hasXY,
     timeCol |-> IF body.timed THEN timeCol ELSE "none",
     hasDist |-> hasDist, rows |-> body.rows]

\* the time column, whether there is a Distance column, and whether the lap
\* numbers are known: each varied against the usual kind of session
SessionKinds ==
    {[timeCol |-> tc, hasDist |-> hd, known |-> TRUE] :
       tc \in TimeCols, hd \in BOOLEAN}
    \cup {[timeCol |-> "SessionTime", hasDist |-> TRUE, known |-> FALSE]}

\* the drivers of n laps, up to renaming: the first lap is VER's
DriverOrders(n) == {d \in [1 .. n -> DriverIds] : n = 0 \/ d[1] = "VER"}

\* a session of n laps
MkSession(n, d, b, tc, hd, known) ==
    [laps |-> [i \in 1 .. n |->
                 MkLap(d[i], IF known THEN F(i) ELSE NaN, b[i], tc, hd)]]

-----------------------------------------------------------------------------
(* helpers.get_telemetry_time_seconds *)

\* the result is None (ok = FALSE) or an array of float seconds
get_telemetry_time_seconds(lap) ==
    IF lap.rows = <<>> THEN [ok |-> FALSE, t |-> <<>>]
    ELSE IF lap.timeCol = "SessionTime"
      THEN [ok |-> TRUE, t |-> [i \in DOMAIN lap.rows |-> lap.rows[i].T]]
    ELSE IF lap.timeCol = "Time_datetime"
      THEN [ok |-> TRUE,
            t |-> [i \in DOMAIN lap.rows |->
                     FSub(lap.rows[i].T, lap.rows[1].T)]]
    ELSE [ok |-> FALSE, t |-> <<>>]

-----------------------------------------------------------------------------
(* helpers.to_epoch_seconds *)

\* a time value as the acquisition layer hands it over: a timestamp v units
\* after the epoch, a duration of v units, the raw number v / Resolution, or
\* a value that is none of these (NaT, None, text)
Stamp(v) == [kind |-> "timestamp", v |-> v]
Duration(v) == [kind |-> "duration", v |-> v]
Number(v) == [kind |-> "number", v |-> v]
Malformed == [kind |-> "malformed", v |-> 0]

NanosPerSecond == 1000000000

\* one element: pd.Timestamp(t).timestamp() where pd.Timestamp accepts t - a
\* timestamp, and also a number, which it reads as nanoseconds since the
\* epoch; else t.total_seconds() for a duration; else NaN
EpochSeconds(t) ==
    CASE t.kind = "timestamp" -> F(t.v)
      [] t.kind = "number" -> F(t.v \div NanosPerSecond)
      [] t.kind = "duration" -> F(t.v)
      [] OTHER -> NaN

to_epoch_seconds(seq) == [i \in DOMAIN seq |-> EpochSeconds(seq[i])]

-----------------------------------------------------------------------------
(* telemetry.collect_session_telemetry *)

\* tel['Time'], where the telemetry of the lap has that column: the datetimes
\* the lap is timed by, or the column the lap carries beside SessionTime
HasTimeColumn(lap) == lap.timeCol = "Time_datetime" \/ "Time" \in DOMAIN lap

TimeColumn(lap) ==
    IF lap.timeCol = "Time_datetime"
      THEN [i \in DOMAIN lap.rows |->
              IF lap.rows[i].T.nan THEN Malformed ELSE Stamp(lap.rows[i].T.v)]
      ELSE lap.Time

RECURSIVE MaskIdx(_, _)
\* indices of the rows whose X and Y are both present, in order
MaskIdx(rows, i) ==
    IF i > Len(rows) THEN <<>>
    ELSE (IF ~rows[i].X.nan /\ ~rows[i].Y.nan THEN <<i>> ELSE <<>>)
         \o MaskIdx(rows, i + 1)

\* the per-lap frame appended to rows, or <<>> when the lap is skipped
LapFrame(lap) ==
    LET tsec == get_telemetry_time_seconds(lap)
        mask == MaskIdx(lap.rows, 1)
    IN  IF lap.tel = "raise" \/ lap.rows = <<>> THEN <<>>
        ELSE IF ~lap.hasXY THEN <<>>
        ELSE IF ~tsec.ok THEN <<>>
        ELSE IF mask = <<>> THEN <<>>
        ELSE
          LET ts == [k \in DOMAIN mask |-> tsec.t[mask[k]]]
              lap_num == IF lap.LapNumber.nan THEN 0 ELSE lap.LapNumber.v
              lap_start == NpMin(ts)
              abs_list == IF HasTimeColumn(lap)
                            THEN [k \in DOMAIN mask |->
                                    EpochSeconds(TimeColumn(lap)[mask[k]])]
                            ELSE [k \in DOMAIN mask |-> NaN]
          IN  [k \in DOMAIN mask |->
                 [driver |-> lap.Driver,
                  time |-> ts[k],
                  x |-> lap.rows[mask[k]].X,
                  y |-> lap.rows[mask[k]].Y,
                  lap |-> lap_num,
                  distance |-> IF lap.hasDist
                                 THEN lap.rows[mask[k]].Distance
                                 ELSE FSub(ts[k], lap_start),
                  \* a lap without the column, or with only NaN in it, is
                  \* filled with NaN by the concatenation
                  abs_time |-> abs_list[k]]]

\* rows: the frames of every driver (in order of first appearance), each
\* driver's laps in order, concatenated
ConcatFrames(laps) ==
    LET drivers == Unique([i \in DOMAIN laps |-> laps[i].Driver])
        ofDriver(d) == SelectSeq(laps, LAMBDA l : l.Driver = d)
    IN  Flatten([k \in DOMAIN drivers |->
                   Flatten([j \in DOMAIN ofDriver(drivers[k]) |->
                              LapFrame(ofDriver(drivers[k])[j])])])

\* full['time'] - global_min
NormalizeTime(full) ==
    LET global_min == PdMin([i \in DOMAIN full |-> full[i].time])
    IN  [i \in DOMAIN full |->
           [full[i] EXCEPT !.time = FSub(full[i].time, global_min)]]

RECURSIVE SortedOrders(_)
\* the orders an ascending sort by time may leave rows without NaN time in:
\* the sort is not stable, so rows of equal time come in any order
SortedOrders(s) ==
    IF s = <<>> THEN {<<>>}
    ELSE LET m == PdMin([i \in DOMAIN s |-> s[i].time])
             grp == SelectSeq(s, LAMBDA r : r.time = m)
             rest == SelectSeq(s, LAMBDA r : r.time # m)
         IN  {p \o r : p \in Perms(grp), r \in SortedOrders(rest)}

\* DataFrame.sort_values('time'): NaN times last, in their original order
SortValues(s) ==
    LET nans == SelectSeq(s, LAMBDA r : r.time.nan)
        nums == SelectSeq(s, LAMBDA r : ~r.time.nan)
    IN  {p \o nans : p \in SortedOrders(nums)}

None == [present |-> FALSE, rows |-> <<>>]

\* the values collect_session_telemetry may return for a session
collect_session_telemetry(sess) ==
    IF sess.laps = <<>> THEN {None}
    ELSE LET rows == ConcatFrames(sess.laps)
         IN  IF rows = <<>> THEN {None}
             ELSE {[present |-> TRUE, rows |-> full] :
                     full \in SortValues(NormalizeTime(rows))}

-----------------------------------------------------------------------------
(* Sessions replayed by the viewer *)

Rw(t, x, y, d) == [T |-> t, X |-> F(x), Y |-> F(y), Distance |-> F(d)]
Lp(drv, lapno, pos, rows) ==
    [Driver |-> drv, LapNumber |-> F(lapno), Position |-> F(pos),
     tel |-> "ok", hasXY |-> TRUE,
     timeCol |-> "SessionTime", hasDist |-> TRUE, rows |-> rows]

\* the second driver's first sample comes after the timeline's start, and
\* the first driver is a lap ahead at the end
LateStarter ==
    [laps |-> <<Lp("VER", 1, 2, <<Rw(F(32), 5, 5, 100)>>),
                Lp("VER", 2, 2, <<Rw(F(64), 25, 10, 900)>>),
                Lp("HAM", 1, 1, <<Rw(F(48), 10, 5, 300),
                               Rw(F(80), 30, 40, 1200)>>)>>]

\* samples of equal time, within a driver and across drivers
EqualTimes ==
    [laps |-> <<Lp("VER", 1, 1, <<Rw(F(32), 5, 5, 100), Rw(F(32), 7, 9, 200)>>),
                Lp("HAM", 1, 2, <<Rw(F(32), 10, 5, 300)>>)>>]

\* a row whose time is missing (NaT) but whose position is present
MissingTime ==
    [laps |-> <<Lp("VER", 1, 1, <<Rw(F(32), 5, 5, 100), Rw(NaN, 25, 10, 900)>>),
                Lp("HAM", 1, 2, <<Rw(F(56), 10, 5, 300)>>)>>]

\* a session without laps
NoLaps == [laps |-> <<>>]

PlaybackSessions == {LateStarter, EqualTimes, MissingTime, NoLaps}

-----------------------------------------------------------------------------
(* Program constants *)

Resolution == 16            \* time units per second: 1 / (0.125 / 2)
MAIN_W == 600
SCREEN_H == 800
DEFAULT_POINT_SIZE == 6
Padding == 40
MinSpeed == Resolution \div 8      \* 0.125
MaxSpeed == 128 * Resolution       \* 128.0
InitialSpeed == 4 * Resolution     \* 4.0
MinPointSize == 2
MaxPointSize == 30

DtValues == {-1, 0, 1}      \* wall-clock deltas, in seconds

-----------------------------------------------------------------------------
(* Races replayed by the viewer: time and distance in 1/Resolution units *)

Sec(n) == n * Resolution

\* driver A = VER with samples at t = 0, 10, 20 s on laps 0, 1, 1 at
\* distances 0, 50, 150; driver B = HAM with samples at t = 0, 15 s on laps
\* 0, 1 at distances 0, 80; posA and posB are their final positions
Scenario(posA, posB) ==
    [laps |-> <<Lp("VER", 0, posA, <<Rw(F(Sec(0)), 5, 5, Sec(0))>>),
                Lp("VER", 1, posA, <<Rw(F(Sec(10)), 25, 10, Sec(50)),
                                     Rw(F(Sec(20)), 30, 40, Sec(150))>>),
                Lp("HAM", 0, posB, <<Rw(F(Sec(0)), 5, 5, Sec(0))>>),
                Lp("HAM", 1, posB, <<Rw(F(Sec(15)), 25, 10, Sec(80))>>)>>]

\* HAM stops on its first lap, which carries no position; VER runs four laps
LappedRace ==
    [laps |-> <<[Lp("HAM", 1, 0, <<Rw(F(0), 5, 5, Sec(0))>>)
                   EXCEPT !.Position = NaN],
                Lp("VER", 1, 1, <<Rw(F(17), 10, 5, Sec(100))>>),
                Lp("VER", 2, 1, <<Rw(F(Sec(2)), 25, 10, Sec(100))>>),
                Lp("VER", 3, 1, <<Rw(F(Sec(3)), 30, 40, Sec(100))>>),
                Lp("VER", 4, 1, <<Rw(F(Sec(4)), 5, 5, Sec(100))>>)>>]

\* the telemetry of HAM's first lap and of LEC's only lap cannot be read
SilentDriver ==
    [laps |-> <<Lp("VER", 1, 1, <<Rw(F(Sec(1)), 5, 5, Sec(100))>>),
                Lp("VER", 2, 1, <<Rw(F(Sec(5)), 25, 10, Sec(100))>>),
                [Lp("HAM", 1, 2, <<>>) EXCEPT !.tel = "raise"],
                Lp("HAM", 2, 2, <<Rw(F(Sec(3)), 10, 5, Sec(300))>>),
                [Lp("LEC", 1, 3, <<>>) EXCEPT !.tel = "raise"]>>]

\* no Distance column, and one row whose time is missing (NaT)
DerivedDistance ==
    [laps |-> <<[Lp("VER", 1, 1, <<Rw(F(Sec(2)), 5, 5, 0),
                                   Rw(NaN, 25, 10, 0)>>)
                   EXCEPT !.hasDist = FALSE],
                [Lp("VER", 2, 1, <<Rw(F(Sec(4)), 30, 40, 0)>>)
                   EXCEPT !.hasDist = FALSE],
                [Lp("HAM", 1, 2, <<Rw(F(Sec(3)), 10, 5, 0)>>)
                   EXCEPT !.hasDist = FALSE]>>]

RaceSessions == {LappedRace, SilentDriver, DerivedDistance}

\* the scenario under both final classifications
ScenarioSessions == {Scenario(1, 2), Scenario(2, 1)}

\* two laps of two drivers within one second: HAM is ahead on distance while
\* the race is on, VER is classified first
ShortRace ==
    [laps |-> <<Lp("VER", 1, 1, <<Rw(F(0), 5, 5, Sec(100))>>),
                Lp("VER", 2, 1, <<Rw(F(Sec(1)), 25, 10, Sec(100))>>),
                Lp("HAM", 1, 2, <<Rw(F(0), 10, 5, Sec(300))>>)>>]

ControlSessions == {ShortRace}

\* the races with a driver without a position and a driver without samples
StandingsSessions == {LappedRace, SilentDriver}

\* the race on which the two viewers are compared
CompareSessions == {LappedRace}

-----------------------------------------------------------------------------
(* helpers.normalize_coords *)

SetMin(S) == CHOOSE m \in S : \A n \in S : m <= n
SetMax(S) == CHOOSE m \in S : \A n \in S : m >= n

\* screen coordinates of (x, y) among the positions xs, ys
normalize_coords(xs, ys, x, y) ==
    LET min_x == SetMin(xs)
        min_y == SetMin(ys)
        dx == IF SetMax(xs) # min_x THEN SetMax(xs) - min_x ELSE 1
        dy == IF SetMax(ys) # min_y THEN SetMax(ys) - min_y ELSE 1
        effective_w == MAIN_W - Padding * 2
        effective_h == SCREEN_H - Padding * 2
        \* scale = min(effective_w / dx, effective_h / dy), as num / den
        wide == effective_w * dy <= effective_h * dx
        num == IF wide THEN effective_w ELSE effective_h
        den == IF wide THEN dx ELSE dy
    IN  [xn |-> ((x - min_x) * num) \div den + Padding,
         \* astype(int) truncates SCREEN_H - (q + Padding), which is positive
         yn |-> SCREEN_H - Padding + ((-((y - min_y) * num)) \div den)]

-----------------------------------------------------------------------------
(* viewer.run_viewer: preparation *)

\* telemetry['driver'].unique().tolist()
DriversOf(rows) == Unique([i \in DOMAIN rows |-> rows[i].driver])

WithScreenCoords(rows) ==
    LET xs == {rows[i].x.v : i \in DOMAIN rows}
        ys == {rows[i].y.v : i \in DOMAIN rows}
    IN  [i \in DOMAIN rows |->
           LET c == normalize_coords(xs, ys, rows[i].x.v, rows[i].y.v)
           IN  [driver |-> rows[i].driver, time |-> rows[i].time,
                lap |-> rows[i].lap, distance |-> rows[i].distance,
                xn |-> c.xn, yn |-> c.yn]]

RECURSIVE AscendingSeq(_)
\* a finite set of integers as an ascending sequence
AscendingSeq(S) ==
    IF S = {} THEN <<>> ELSE <<SetMin(S)>> \o AscendingSeq(S \ {SetMin(S)})

\* np.sort(telemetry['time'].unique()): ascending, a NaN last
SortedUniqueTimes(rows) ==
    LET nums == AscendingSeq({rows[i].time.v :
                                i \in {j \in DOMAIN rows : ~rows[j].time.nan}})
    IN  [i \in DOMAIN nums |-> F(nums[i])]
        \o (IF \E i \in DOMAIN rows : rows[i].time.nan THEN <<NaN>> ELSE <<>>)

\* g = telemetry[telemetry['driver'] == drv].sort_values('time'): the
\* arrays one driver may get
DriverArrays(rows, drv) == SortValues(SelectSeq(rows, LAMBDA r : r.driver = drv))

RECURSIVE DriverDataChoices(_, _)
\* driver_data: one of its arrays for each driver
DriverDataChoices(rows, drivers) ==
    IF drivers = <<>> THEN {[d \in {} |-> <<>>]}
    ELSE {(drivers[1] :> a) @@ f :
            a \in DriverArrays(rows, drivers[1]),
            f \in DriverDataChoices(rows, Tail(drivers))}

\* session.status_data / session.race_control_messages: a session without
\* the attribute is handled like one whose table is empty
StatusData(sess) ==
    IF "status_data" \in DOMAIN sess THEN sess.status_data ELSE <<>>

RaceControlMessages(sess) ==
    IF "race_control_messages" \in DOMAIN sess
      THEN sess.race_control_messages ELSE <<>>

\* telemetry_has_abs, telemetry_abs_min
TelemetryHasAbs(rows) == \E i \in DOMAIN rows : ~rows[i].abs_time.nan
TelemetryAbsMin(rows) == PdMin([i \in DOMAIN rows |-> rows[i].abs_time])

\* status_times / message_times of a stream that is not empty: its times in
\* seconds, relative to the telemetry's earliest absolute time where it has
\* one, else relative to the stream's own first time
AlignedTimes(stream, rows) ==
    LET epoch == to_epoch_seconds([i \in DOMAIN stream |-> stream[i].Time])
    IN  IF stream = <<>> THEN <<>>
        ELSE IF TelemetryHasAbs(rows)
          THEN [i \in DOMAIN epoch |->
                  FSub(epoch[i], TelemetryAbsMin(rows))]
        ELSE IF \A i \in DOMAIN epoch : epoch[i].nan THEN <<>>
        ELSE [i \in DOMAIN epoch |-> FSub(epoch[i], epoch[1])]

\* lap_distance_margin = max(1000.0, max_dist + 100.0)
LapDistanceMargin(rows) ==
    LET max_dist == NanMax([i \in DOMAIN rows |-> rows[i].distance])
    IN  PyMax(F(1000 * Resolution), FAdd(max_dist, F(100 * Resolution)))

-----------------------------------------------------------------------------
(* viewer.run_viewer: the snapshot of one frame *)

\* numpy's ordering of floats: NaN sorts after every number
NpLess(a, b) == FLt(a, b) \/ (b.nan /\ ~a.nan)

RECURSIVE BinSearchLeft(_, _, _, _)
\* the search with side='left': the first index whose element is not below key
BinSearchLeft(arr, key, lo, hi) ==
    IF lo >= hi THEN lo
    ELSE LET mid == lo + ((hi - lo) \div 2)
         IN  IF NpLess(arr[mid + 1], key)
               THEN BinSearchLeft(arr, key, mid + 1, hi)
               ELSE BinSearchLeft(arr, key, lo, mid)

RECURSIVE BinSearchRight(_, _, _, _)
\* np.searchsorted(arr, key, side='right'): binary search on [lo, hi)
BinSearchRight(arr, key, lo, hi) ==
    IF lo >= hi THEN lo
    ELSE LET mid == lo + ((hi - lo) \div 2)
         IN  IF NpLess(key, arr[mid + 1])
               THEN BinSearchRight(arr, key, lo, mid)
               ELSE BinSearchRight(arr, key, mid + 1, hi)

\* the index without the "idx < 0" case: -1 then addresses the last sample
SnapshotIndexWrapping(data, t) ==
    LET t_arr == [i \in DOMAIN data |-> data[i].time]
        idx == BinSearchRight(t_arr, t, 0, Len(t_arr)) - 1
    IN  IF idx < 0 THEN Len(t_arr) - 1 ELSE idx

\* index (from 0) of the sample shown for a driver at time t
SnapshotIndex(data, t) ==
    LET t_arr == [i \in DOMAIN data |-> data[i].time]
        idx == BinSearchRight(t_arr, t, 0, Len(t_arr)) - 1
    IN  IF idx < 0 THEN 0
        ELSE IF idx >= Len(t_arr) THEN Len(t_arr) - 1
        ELSE idx

\* driver_stats[drv]
Snapshot(data, t, margin) ==
    LET idx == SnapshotIndex(data, t)
        smp == data[idx + 1]
    IN  [time |-> smp.time, lap |-> smp.lap, distance |-> smp.distance,
         xn |-> smp.xn, yn |-> smp.yn,
         progress_score |-> FAdd(F(smp.lap * margin.v), smp.distance)]

\* driver_stats: drivers without any sample are left out
DriverStats(dd, t, margin) ==
    [d \in {e \in DOMAIN dd : dd[e] # <<>>} |-> Snapshot(dd[d], t, margin)]

-----------------------------------------------------------------------------
(* viewer.run_viewer: the session info of one frame *)

\* a status code as the status table holds it: text, or a number of a float
\* column
StrCode(s) == [kind |-> "str", s |-> s, n |-> 0]
FloatCode(n) == [kind |-> "float", s |-> "", n |-> n]

\* str(current_status): a float prints with its fractional part
PyStr(c) == IF c.kind = "str" THEN c.s ELSE ToString(c.n) \o ".0"

\* index (from 0) of the event current at time t, -1 where there is none
EventIndex(ev_times, t) == BinSearchRight(ev_times, t, 0, Len(ev_times)) - 1

\* current_status
CurrentStatus(ev_times, codes, t) ==
    LET idx == EventIndex(ev_times, t)
    IN  IF idx >= 0 /\ idx < Len(codes) THEN PyStr(codes[idx + 1]) ELSE "1"

\* the label without the float renderings of the codes
SafetyStrExact(status) ==
    IF status = "3" THEN "Safety Car Deployed"
    ELSE IF status = "7" THEN "VSC Deployed"
    ELSE IF status = "2" THEN "Safety Car Reported"
    ELSE IF status = "5" THEN "Yellow Flag"
    ELSE IF status = "4" THEN "Red Flag"
    ELSE IF status = "6" \/ status = "8" THEN "Safety Car Ending"
    ELSE "Green Flag"

\* safety_str
SafetyStr(status) ==
    IF status = "3" \/ status = "3.0" THEN "Safety Car Deployed"
    ELSE IF status = "7" \/ status = "7.0" THEN "VSC Deployed"
    ELSE IF status = "2" \/ status = "2.0" THEN "Safety Car Reported"
    ELSE IF status = "5" \/ status = "5.0" THEN "Yellow Flag"
    ELSE IF status = "4" \/ status = "4.0" THEN "Red Flag"
    ELSE IF status = "6" \/ status = "6.0" \/ status = "8" \/ status = "8.0"
      THEN "Safety Car Ending"
    ELSE "Green Flag"

\* the lookup with a placeholder where there is no message
LatestMessagePlaceholder(ev_times, msgs, t) ==
    LET idx == EventIndex(ev_times, t)
    IN  IF idx >= 0 /\ idx < Len(msgs) THEN msgs[idx + 1] ELSE "N/A"

\* the latest race-control message at time t, "" where there is none
LatestMessage(ev_times, msgs, t) ==
    LET idx == EventIndex(ev_times, t)
    IN  IF idx >= 0 /\ idx < Len(msgs) THEN msgs[idx + 1] ELSE ""

\* the cut that keeps 40 characters before the ellipsis
TruncatedAtLimit(msg) ==
    IF Len(msg) > 40 THEN SubSeq(msg, 1, 40) \o "..." ELSE msg

\* the message as displayed
Truncated(msg) == IF Len(msg) > 40 THEN SubSeq(msg, 1, 37) \o "..." ELSE msg

-----------------------------------------------------------------------------
(* viewer.run_viewer: the standings of one frame *)

\* lap_df['LapNumber'].max(): NaN when no lap number is known
LapNumberMax(sess) ==
    NanMax([i \in DOMAIN sess.laps |-> sess.laps[i].LapNumber])

\* total_laps
TotalLaps(sess) == IF sess.laps = <<>> THEN 0 ELSE LapNumberMax(sess).v

\* driver_positions.get(drv, 99): the Position of the driver's last lap
DriverPosition(sess, drv) ==
    LET own == SelectSeq(sess.laps, LAMBDA l : l.Driver = drv)
    IN  IF own = <<>> THEN F(99) ELSE own[Len(own)].Position

\* current_lap: the highest lap among the samples at or before t
CurrentLap(rows, t) ==
    LET past == {i \in DOMAIN rows : FLe(rows[i].time, t)}
    IN  IF past = {} THEN 0 ELSE SetMax({rows[i].lap : i \in past})

RECURSIVE InsertionPoint(_, _, _, _, _)
\* list.sort's binary insertion: where pivot goes in the sorted prefix a
InsertionPoint(a, pivot, key, l, r) ==
    IF l >= r THEN l
    ELSE LET p == l + ((r - l) \div 2)
         IN  IF FLt(key[pivot], key[a[p + 1]])
               THEN InsertionPoint(a, pivot, key, l, p)
               ELSE InsertionPoint(a, pivot, key, p + 1, r)

RECURSIVE SortedBy(_, _)
\* sorted(items, key=key): ascending and stable; key maps items to floats
SortedBy(items, key) ==
    IF items = <<>> THEN <<>>
    ELSE LET a == SortedBy(SubSeq(items, 1, Len(items) - 1), key)
             pivot == items[Len(items)]
             at == InsertionPoint(a, pivot, key, 0, Len(a))
         IN  SubSeq(a, 1, at) \o <<pivot>> \o SubSeq(a, at + 1, Len(a))

Reverse(s) == [i \in DOMAIN s |-> s[Len(s) + 1 - i]]

\* sorted(items, key=key, reverse=True): descending, equal keys keep their order
SortedByReverse(items, key) == Reverse(SortedBy(Reverse(items), key))

\* the standings that, once the race is finished, list only the drivers with
\* a recorded final position
StandingsOfClassified(sess, stats, lap, items) ==
    IF lap >= TotalLaps(sess)
      THEN SortedBy(SelectSeq(items,
                              LAMBDA d : ~DriverPosition(sess, d).nan),
                    [d \in DOMAIN stats |-> DriverPosition(sess, d)])
      ELSE SortedByReverse(items, [d \in DOMAIN stats |->
                                     stats[d].progress_score])

\* the two sorts of the sidebar, applied to the drivers of driver_stats in
\* the order items: by final position once the current lap reaches
\* total_laps, by progress_score (higher first) before
Standings(sess, stats, lap, items) ==
    IF lap >= TotalLaps(sess)
      THEN SortedBy(items, [d \in DOMAIN stats |-> DriverPosition(sess, d)])
      ELSE SortedByReverse(items, [d \in DOMAIN stats |->
                                     stats[d].progress_score])

\* driver_stats.items(): the drivers with a snapshot, in the order of drivers
StatsItems(rows, stats) ==
    SelectSeq(DriversOf(rows), LAMBDA d : d \in DOMAIN stats)

\* sorted_drivers
SortedDrivers(sess, rows, stats, t) ==
    Standings(sess, stats, CurrentLap(rows, t), StatsItems(rows, stats))

\* two decimal digits, zero-padded
Digits2(n) == IF n < 10 THEN "0" \o ToString(n) ELSE ToString(n)

\* three decimal digits, zero-padded
Digits3(n) ==
    IF n < 10 THEN "00" \o ToString(n)
    ELSE IF n < 100 THEN "0" \o ToString(n)
    ELSE ToString(n)

\* n / d rounded to the nearest integer, halves to the even one
RoundHalfEven(n, d) ==
    LET q == n \div d
        r == n % d
    IN  IF 2 * r < d THEN q
        ELSE IF 2 * r > d THEN q + 1
        ELSE IF q % 2 = 0 THEN q ELSE q + 1

\* helpers.fmt_time: seconds as M:SS.mmm, negatives shown as zero; int() of
\* a NaN raises
fmt_time(s) ==
    IF s.nan THEN "ValueError"
    ELSE LET ss == IF s.v < 0 THEN 0 ELSE s.v
             minutes == ss \div (60 * Resolution)
             seconds == ss % (60 * Resolution)
             millis == RoundHalfEven(seconds * 1000, Resolution)
         IN  ToString(minutes) \o ":" \o Digits2(millis \div 1000)
               \o "." \o Digits3(millis % 1000)

\* the gap taken from the entry to the leader instead of from the leader to
\* the entry
GapStrSwapped(stats, ranked, pos) ==
    LET leader_info == stats[ranked[1]]
        info == stats[ranked[pos]]
    IN  IF info.lap = leader_info.lap
          THEN IF pos = 1 THEN ""
               ELSE " +" \o fmt_time(PyMax(F(0),
                                           FSub(info.time, leader_info.time)))
          ELSE LET lap_diff == leader_info.lap - info.lap
               IN  IF lap_diff <= 0 THEN ""
                   ELSE IF lap_diff = 1 THEN " +1 lap"
                   ELSE " +" \o ToString(lap_diff) \o " laps"

\* the label without the singular case: one lap down reads "+1 laps"
GapStrPlural(stats, ranked, pos) ==
    LET leader_info == stats[ranked[1]]
        info == stats[ranked[pos]]
    IN  IF info.lap = leader_info.lap
          THEN IF pos = 1 THEN ""
               ELSE " +" \o fmt_time(PyMax(F(0),
                                           FSub(leader_info.time, info.time)))
          ELSE LET lap_diff == leader_info.lap - info.lap
               IN  IF lap_diff <= 0 THEN ""
                   ELSE " +" \o ToString(lap_diff) \o " laps"

\* gap_str of the entry at rank pos
GapStr(stats, ranked, pos) ==
    LET leader_info == stats[ranked[1]]
        info == stats[ranked[pos]]
    IN  IF info.lap = leader_info.lap
          THEN IF pos = 1 THEN ""
               ELSE LET gap_sec == FSub(leader_info.time, info.time)
                        jitter == /\ FLt(gap_sec, F(0))
                                  /\ ~gap_sec.nan
                                  /\ 1000 * gap_sec.v > -Resolution
                        snapped == IF jitter THEN F(0) ELSE gap_sec
                    IN  " +" \o fmt_time(PyMax(F(0), snapped))
          ELSE LET lap_diff == leader_info.lap - info.lap
               IN  IF lap_diff <= 0 THEN ""
                   ELSE IF lap_diff = 1 THEN " +1 lap"
                   ELSE " +" \o ToString(lap_diff) \o " laps"

\* the gap labels of the ranked drivers
GapStrs(stats, ranked) ==
    [pos \in DOMAIN ranked |-> GapStr(stats, ranked, pos)]

\* the drivers of the telemetry that have no snapshot
DnfDrivers(rows, stats) ==
    SelectSeq(DriversOf(rows), LAMBDA d : d \notin DOMAIN stats)

-----------------------------------------------------------------------------
(* Sessions with status and race-control streams *)

\* one driver with samples at 0 s and 8 s; the telemetry has no Time column
Unanchored ==
    [laps |-> <<Lp("VER", 1, 1, <<Rw(F(Sec(50)), 5, 5, Sec(0)),
                                  Rw(F(Sec(58)), 25, 10, Sec(100))>>)>>]

\* the absolute time of the Timeline's first sample
Anchor == Sec(100)

\* the same with a Time column of timestamps
Anchored ==
    [laps |-> <<[Time |-> <<Stamp(Anchor), Stamp(Anchor + Sec(8))>>]
                  @@ Unanchored.laps[1]>>]

\* the same with a Time column whose first value is NaT
PartlyAnchored ==
    [laps |-> <<[Time |-> <<Malformed, Stamp(Anchor + Sec(8))>>]
                  @@ Unanchored.laps[1]>>]

StreamBases == {Unanchored, Anchored, PartlyAnchored}

\* the time-ordered event offsets of a stream, from the anchor
EventOffsets == {0, Sec(2), Sec(5)}

\* constructors of the well-formed time values
TimeKinds == {"timestamp", "duration", "number"}
TimeOf(kind, v) == [kind |-> kind, v |-> v]

\* s with x inserted after its first i elements
InsertAt(s, i, x) == SubSeq(s, 1, i) \o <<x>> \o SubSeq(s, i + 1, Len(s))

\* the Time columns of the streams: ordered times of one kind, and the same
\* with one malformed value anywhere among them
TimeColumns ==
    LET ordered == {[i \in DOMAIN AscendingSeq(S) |->
                       TimeOf(k, Anchor + AscendingSeq(S)[i])] :
                      S \in SUBSET EventOffsets, k \in TimeKinds}
    IN  ordered \cup UNION {{InsertAt(c, i, Malformed) : i \in 0 .. Len(c)} :
                               c \in ordered}

\* the code of the status event at a time: '1' at the anchor, '5' two seconds
\* and '4' five seconds after it, '3' where the time is malformed
CodeAt(t) ==
    IF t.kind = "malformed" THEN StrCode("3")
    ELSE IF t.v = Anchor THEN StrCode("1")
    ELSE IF t.v = Anchor + Sec(2) THEN StrCode("5")
    ELSE StrCode("4")

\* status codes as text and as numbers, mapped and unmapped
StatusCodes ==
    {StrCode(c) : c \in {"", "0", "1", "2", "3", "4", "5", "6", "7", "8", "9",
                         "12", "3.0", "4.0", "SC"}}
    \cup {FloatCode(n) : n \in 0 .. 9}

\* the status tables: every Time column with the codes of its times, and one
\* event of every code at the anchor
StatusTables ==
    {[i \in DOMAIN c |-> [Time |-> c[i], Status |-> CodeAt(c[i])]] :
       c \in TimeColumns}
    \cup {<<[Time |-> Stamp(Anchor), Status |-> code]>> : code \in StatusCodes}

RECURSIVE Text(_)
\* a text of n characters
Text(n) ==
    IF n = 0 THEN ""
    ELSE Text(n - 1) \o SubSeq("abcdefghij", ((n - 1) % 10) + 1,
                               ((n - 1) % 10) + 1)

\* the message of the event at a time: of 40 characters at the anchor, of 41
\* two seconds and of 50 five seconds after it
MessageAt(t) ==
    IF t.kind = "malformed" THEN "LOST"
    ELSE IF t.v = Anchor THEN Text(40)
    ELSE IF t.v = Anchor + Sec(2) THEN Text(41)
    ELSE Text(50)

\* the message tables: every Time column of timestamps with the messages of
\* its times, and one message of every length at the anchor
MessageTables ==
    {[i \in DOMAIN c |-> [Time |-> c[i], Message |-> MessageAt(c[i])]] :
       c \in {d \in TimeColumns :
                \A i \in DOMAIN d : d[i].kind \in {"timestamp", "malformed"}}}
    \cup {<<[Time |-> Stamp(Anchor), Message |-> Text(n)]>> :
            n \in {0, 1, 37, 39}}

\* the usual streams: green at the anchor and red five seconds later; one
\* short message at the anchor
UsualStatus ==
    <<[Time |-> Stamp(Anchor), Status |-> StrCode("1")],
      [Time |-> Stamp(Anchor + Sec(5)), Status |-> StrCode("4")]>>
UsualMessages == <<[Time |-> Stamp(Anchor), Message |-> "LIGHTS OUT"]>>

\* each base without streams, with one stream only, and with both: every
\* status table beside the usual messages, every message table beside the
\* usual status
StreamSessions ==
    StreamBases
    \cup {[status_data |-> sd] @@ b : sd \in {UsualStatus, <<>>},
                                     b \in StreamBases}
    \cup {[race_control_messages |-> rm] @@ b : rm \in {UsualMessages, <<>>},
                                               b \in StreamBases}
    \cup {[status_data |-> sd, race_control_messages |-> UsualMessages] @@ b :
            sd \in StatusTables, b \in StreamBases}
    \cup {[status_data |-> UsualStatus, race_control_messages |-> rm] @@ b :
            rm \in MessageTables, b \in StreamBases}

-----------------------------------------------------------------------------
(* selector.F1Selector.load_data and finish_loading *)

NoStats == [d \in {} |-> NaN]

InitWith(sessions) ==
    /\ session \in sessions
    /\ telemetry = None
    /\ pc = "load_data"
    /\ driver_data = [d \in {} |-> <<>>]
    /\ times = <<>>
    /\ status_times = <<>>
    /\ status_codes = <<>>
    /\ message_times = <<>>
    /\ messages = <<>>
    /\ sim_time = NaN            \* the playback state does not exist yet
    /\ playing = FALSE
    /\ speed = 0
    /\ point_size = 0
    /\ show_labels = FALSE
    /\ running = FALSE
    /\ polled = 0
    /\ ev = "none"
    /\ frame = 0
    /\ driver_stats = NoStats
    /\ sorted_drivers = <<>>
    /\ current_lap = 0
    /\ gap_strs = <<>>
    /\ dnf_drivers = <<>>
    /\ current_status = ""
    /\ safety_str = ""
    /\ last_msg = ""

streams == <<status_times, status_codes, message_times, messages>>
playback == <<sim_time, playing, speed, point_size, show_labels>>
rendered == <<driver_stats, sorted_drivers, current_lap, gap_strs, dnf_drivers,
              current_status, safety_str, last_msg>>

\* load_data without the "telemetry is None" return
LoadDataUnchecked ==
    /\ pc = "load_data"
    /\ \E tel \in collect_session_telemetry(session) :
          /\ telemetry' = tel
          /\ pc' = "finish_loading"
    /\ UNCHANGED <<session, driver_data, times, streams, playback, running,
                   polled, ev, frame, rendered>>

\* load_data: collect the telemetry; without any, report and return
LoadData ==
    /\ pc = "load_data"
    /\ \E tel \in collect_session_telemetry(session) :
          /\ telemetry' = tel
          /\ pc' = IF tel = None THEN "no_data" ELSE "finish_loading"
    /\ UNCHANGED <<session, driver_data, times, streams, playback, running,
                   polled, ev, frame, rendered>>

\* finish_loading -> run_viewer, up to the first test of the loop;
\* int(lap_df['LapNumber'].max()) raises when no lap number is known
StartViewer ==
    /\ pc = "finish_loading"
    /\ IF LapNumberMax(session).nan
         THEN /\ pc' = "error"
              /\ UNCHANGED <<driver_data, times, streams, playback, running>>
         ELSE /\ status_times' = AlignedTimes(StatusData(session),
                                               telemetry.rows)
              /\ status_codes' =
                    [i \in DOMAIN StatusData(session) |->
                       StatusData(session)[i].Status]
              /\ message_times' = AlignedTimes(RaceControlMessages(session),
                                                telemetry.rows)
              /\ messages' =
                    [i \in DOMAIN RaceControlMessages(session) |->
                       RaceControlMessages(session)[i].Message]
              /\ LET rows == WithScreenCoords(telemetry.rows)
                 IN  /\ times' = SortedUniqueTimes(rows)
                     /\ driver_data' \in
                           DriverDataChoices(rows, DriversOf(rows))
              /\ sim_time' = times'[1]
              /\ playing' = TRUE
              /\ speed' = InitialSpeed
              /\ point_size' = DEFAULT_POINT_SIZE
              /\ show_labels' = TRUE
              /\ running' = TRUE
              /\ pc' = "loop"
    /\ UNCHANGED <<session, telemetry, polled, ev, frame, rendered>>

-----------------------------------------------------------------------------
(* viewer.run_viewer: the playback loop *)

min_time == times[1]
max_time == times[Len(times)]

\* where times[-1] is NaN the code has no upper bound on sim_time: the model
\* follows it up to MaxSimTime only
WithinCap(t) == t.nan \/ ~max_time.nan \/ t.v <= MaxSimTime

\* an iteration begun without testing the loop flag
BeginFrameIgnoringRunning ==
    /\ pc = "loop"
    /\ frame < MaxFrames
    /\ frame' = frame + 1
    /\ pc' = "events"
    /\ UNCHANGED <<session, telemetry, driver_data, times, streams, playback,
                   running, polled, ev, rendered>>

\* while running: a new iteration begins with pygame.event.get()
BeginFrame ==
    /\ pc = "loop"
    /\ running
    /\ frame < MaxFrames
    /\ frame' = frame + 1
    /\ pc' = "events"
    /\ UNCHANGED <<session, telemetry, driver_data, times, streams, playback,
                   running, polled, ev, rendered>>

\* one more event of the poll is taken up
NextEvent(e) ==
    /\ pc = "events"
    /\ polled < MaxEvents
    /\ polled' = polled + 1
    /\ ev' = e
    /\ UNCHANGED <<session, telemetry, pc, driver_data, times, streams,
                   frame, rendered>>

\* the quit that the q key does not request
QuitWithoutQ ==
    /\ \E e \in {"QUIT", "K_ESCAPE", "K_q"} :
          /\ NextEvent(e)
          /\ running' = IF e = "K_q" THEN running ELSE FALSE
    /\ UNCHANGED playback

\* ev.type == pygame.QUIT, or KEYDOWN with K_ESCAPE or K_q
Quit ==
    /\ \E e \in {"QUIT", "K_ESCAPE", "K_q"} : NextEvent(e)
    /\ running' = FALSE
    /\ UNCHANGED playback

\* K_SPACE
TogglePlaying ==
    /\ NextEvent("K_SPACE")
    /\ playing' = ~playing
    /\ UNCHANGED <<sim_time, speed, point_size, show_labels, running>>

\* min(128.0, speed * 2.0)
Faster(spd) == IF spd * 2 < MaxSpeed THEN spd * 2 ELSE MaxSpeed

\* the halving without the lower limit
SlowerUnbounded(spd) == spd \div 2

\* max(0.125, speed / 2.0)
Slower(spd) == IF spd \div 2 > MinSpeed THEN spd \div 2 ELSE MinSpeed

\* K_UP without the upper limit
SpeedUpUnbounded ==
    /\ NextEvent("K_UP")
    /\ speed' = speed * 2
    /\ UNCHANGED <<sim_time, playing, point_size, show_labels, running>>

\* K_UP
SpeedUp ==
    /\ NextEvent("K_UP")
    /\ speed' = Faster(speed)
    /\ UNCHANGED <<sim_time, playing, point_size, show_labels, running>>

\* K_DOWN
SpeedDown ==
    /\ NextEvent("K_DOWN")
    /\ speed' = Slower(speed)
    /\ UNCHANGED <<sim_time, playing, point_size, show_labels, running>>

\* min(30, point_size + 1)
Enlarged(size) == IF size + 1 < MaxPointSize THEN size + 1 ELSE MaxPointSize

\* the decrease without the lower limit
ReducedUnbounded(size) == size - 1

\* max(2, point_size - 1)
Reduced(size) == IF size - 1 > MinPointSize THEN size - 1 ELSE MinPointSize

\* K_PLUS or K_EQUALS
PointSizeUp ==
    /\ NextEvent("K_PLUS")
    /\ point_size' = Enlarged(point_size)
    /\ UNCHANGED <<sim_time, playing, speed, show_labels, running>>

\* K_MINUS or K_UNDERSCORE
PointSizeDown ==
    /\ NextEvent("K_MINUS")
    /\ point_size' = Reduced(point_size)
    /\ UNCHANGED <<sim_time, playing, speed, show_labels, running>>

\* K_l
ToggleLabels ==
    /\ NextEvent("K_l")
    /\ show_labels' = ~show_labels
    /\ UNCHANGED <<sim_time, playing, speed, point_size, running>>

\* K_RIGHT: scrubs only while paused
ScrubRight ==
    /\ NextEvent("K_RIGHT")
    /\ sim_time' = IF ~playing
                     THEN PyMin(FAdd(sim_time, F(Resolution)), max_time)
                     ELSE sim_time
    /\ WithinCap(sim_time')
    /\ UNCHANGED <<playing, speed, point_size, show_labels, running>>

\* K_LEFT: scrubs only while paused
ScrubLeft ==
    /\ NextEvent("K_LEFT")
    /\ sim_time' = IF ~playing
                     THEN PyMax(FSub(sim_time, F(Resolution)), min_time)
                     ELSE sim_time
    /\ UNCHANGED <<playing, speed, point_size, show_labels, running>>

\* any other key or event type
OtherEvent ==
    /\ NextEvent("other")
    /\ UNCHANGED <<playback, running>>

\* the poll is exhausted
EndPoll ==
    /\ pc = "events"
    /\ pc' = "advance"
    /\ polled' = 0
    /\ ev' = "none"
    /\ UNCHANGED <<session, telemetry, driver_data, times, streams, playback,
                   running, frame, rendered>>

\* sim_time after "sim_time += dt * speed" and the two clamps
Advanced(t, delta, spd) ==
    LET moved == FAdd(t, F(delta * spd))
        upper == IF FGt(moved, max_time) THEN max_time ELSE moved
    IN  IF FLt(upper, min_time) THEN min_time ELSE upper

\* a tick that pauses the clock when it reaches the end of the timeline
AdvancePausesAtEnd ==
    /\ pc = "advance"
    /\ \E dt \in DtValues :
          sim_time' = IF playing THEN Advanced(sim_time, dt, speed)
                      ELSE sim_time
    /\ WithinCap(sim_time')
    /\ playing' = (playing /\ sim_time' # max_time)
    /\ pc' = "render"
    /\ UNCHANGED <<session, telemetry, driver_data, times, streams, speed,
                   point_size, show_labels, running, polled, ev, frame,
                   rendered>>

\* a tick that moves the clock whether it is playing or paused
AdvanceWhilePaused ==
    /\ pc = "advance"
    /\ \E dt \in DtValues : sim_time' = Advanced(sim_time, dt, speed)
    /\ WithinCap(sim_time')
    /\ pc' = "render"
    /\ UNCHANGED <<session, telemetry, driver_data, times, streams, playing,
                   speed, point_size, show_labels, running, polled, ev, frame,
                   rendered>>

\* if playing: advance the clock by the wall-clock delta of this iteration
Advance ==
    /\ pc = "advance"
    /\ \E dt \in DtValues :
          sim_time' = IF playing THEN Advanced(sim_time, dt, speed)
                      ELSE sim_time
    /\ WithinCap(sim_time')
    /\ pc' = "render"
    /\ UNCHANGED <<session, telemetry, driver_data, times, streams, playing,
                   speed, point_size, show_labels, running, polled, ev, frame,
                   rendered>>

\* a frame that keeps the highest lap count shown so far, and with it the
\* ranking of a finished race once one has been shown
RenderLatched ==
    /\ pc = "render"
    /\ driver_stats' =
          DriverStats(driver_data, sim_time, LapDistanceMargin(telemetry.rows))
    /\ current_lap' =
          IF current_lap > CurrentLap(telemetry.rows, sim_time)
            THEN current_lap ELSE CurrentLap(telemetry.rows, sim_time)
    /\ current_status' = CurrentStatus(status_times, status_codes, sim_time)
    /\ safety_str' = SafetyStr(current_status')
    /\ last_msg' = Truncated(LatestMessage(message_times, messages, sim_time))
    /\ sorted_drivers' =
          Standings(session, driver_stats', current_lap',
                    StatsItems(telemetry.rows, driver_stats'))
    /\ gap_strs' = GapStrs(driver_stats', sorted_drivers')
    /\ dnf_drivers' = DnfDrivers(telemetry.rows, driver_stats')
    \* time_str = fmt_time(tm) raises on a snapshot whose time is NaN
    /\ pc' = IF \E d \in DOMAIN driver_stats' : driver_stats'[d].time.nan
               THEN "error" ELSE "loop"
    /\ UNCHANGED <<session, telemetry, driver_data, times, streams, playback,
                   running, polled, ev, frame>>

\* the rest of the iteration: snapshot of every driver, standings, drawing
Render ==
    /\ pc = "render"
    /\ driver_stats' =
          DriverStats(driver_data, sim_time, LapDistanceMargin(telemetry.rows))
    /\ current_lap' = CurrentLap(telemetry.rows, sim_time)
    /\ current_status' = CurrentStatus(status_times, status_codes, sim_time)
    /\ safety_str' = SafetyStr(current_status')
    /\ last_msg' = Truncated(LatestMessage(message_times, messages, sim_time))
    /\ sorted_drivers' =
          SortedDrivers(session, telemetry.rows, driver_stats', sim_time)
    /\ gap_strs' = GapStrs(driver_stats', sorted_drivers')
    /\ dnf_drivers' = DnfDrivers(telemetry.rows, driver_stats')
    \* time_str = fmt_time(tm) raises on a snapshot whose time is NaN
    /\ pc' = IF \E d \in DOMAIN driver_stats' : driver_stats'[d].time.nan
               THEN "error" ELSE "loop"
    /\ UNCHANGED <<session, telemetry, driver_data, times, streams, playback,
                   running, polled, ev, frame>>

\* the loop test fails: pygame.quit()
ExitLoop ==
    /\ pc = "loop"
    /\ ~running
    /\ pc' = "quit"
    /\ UNCHANGED <<session, telemetry, driver_data, times, streams, playback,
                   running, polled, ev, frame, rendered>>

\* while running, with the count of iterations held at its bound: the loop
\* itself goes on for as long as running holds
BeginFrameOn ==
    /\ pc = "loop"
    /\ running
    /\ frame' = IF frame < MaxFrames THEN frame + 1 ELSE frame
    /\ pc' = "events"
    /\ UNCHANGED <<session, telemetry, driver_data, times, streams, playback,
                   running, polled, ev, rendered>>

SteadyDt == 1               \* a wall-clock delta every tick reaches, in seconds

\* the tick of an iteration whose wall-clock delta is SteadyDt; where the
\* code has no upper bound on sim_time, a clock beyond MaxSimTime, which is
\* past every sample, is held at MaxSimTime
AdvanceSteadily ==
    /\ pc = "advance"
    /\ LET moved == IF playing THEN Advanced(sim_time, SteadyDt, speed)
                    ELSE sim_time
       IN  sim_time' = IF WithinCap(moved) THEN moved ELSE F(MaxSimTime)
    /\ pc' = "render"
    /\ UNCHANGED <<session, telemetry, driver_data, times, streams, playing,
                   speed, point_size, show_labels, running, polled, ev, frame,
                   rendered>>

-----------------------------------------------------------------------------
(* main.run_viewer: the clock and the standings of the monolithic viewer *)

MainMinPointSize == 2
MainMaxPointSize == 30

\* the playback state as one record
PlaybackState(t, pl, spd, size, labels, run) ==
    [sim_time |-> t, playing |-> pl, speed |-> spd, point_size |-> size,
     show_labels |-> labels, running |-> run]

\* the playback state main.run_viewer enters its loop with
main_playback_state(ts) ==
    PlaybackState(ts[1], TRUE, 4 * Resolution, DEFAULT_POINT_SIZE, TRUE, TRUE)

\* the branch of the event loop taken for event e, applied to the state pb
main_handle_event(e, pb, ts) ==
    CASE e = "QUIT" -> [pb EXCEPT !.running = FALSE]
      [] e = "K_SPACE" -> [pb EXCEPT !.playing = ~pb.playing]
      [] e \in {"K_ESCAPE", "K_q"} -> [pb EXCEPT !.running = FALSE]
      [] e = "K_UP" ->
           [pb EXCEPT !.speed = IF pb.speed * 2 < 128 * Resolution
                                  THEN pb.speed * 2 ELSE 128 * Resolution]
      [] e = "K_DOWN" ->
           [pb EXCEPT !.speed = IF pb.speed \div 2 > Resolution \div 8
                                  THEN pb.speed \div 2 ELSE Resolution \div 8]
      [] e = "K_PLUS" ->
           [pb EXCEPT !.point_size = IF pb.point_size + 1 < MainMaxPointSize
                                       THEN pb.point_size + 1
                                       ELSE MainMaxPointSize]
      [] e = "K_MINUS" ->
           [pb EXCEPT !.point_size = IF pb.point_size - 1 > MainMinPointSize
                                       THEN pb.point_size - 1
                                       ELSE MainMinPointSize]
      [] e = "K_l" -> [pb EXCEPT !.show_labels = ~pb.show_labels]
      [] e = "K_RIGHT" /\ ~pb.playing ->
           [pb EXCEPT !.sim_time = PyMin(FAdd(pb.sim_time, F(Resolution)),
                                         ts[Len(ts)])]
      [] e = "K_LEFT" /\ ~pb.playing ->
           [pb EXCEPT !.sim_time = PyMax(FSub(pb.sim_time, F(Resolution)),
                                         ts[1])]
      [] OTHER -> pb

\* the tick of one iteration with wall-clock delta dt
main_tick(pb, dt, ts) ==
    IF ~pb.playing THEN pb
    ELSE LET moved == FAdd(pb.sim_time, F(dt * pb.speed))
             below == IF FGt(moved, ts[Len(ts)]) THEN ts[Len(ts)] ELSE moved
         IN  [pb EXCEPT !.sim_time = IF FLt(below, ts[1]) THEN ts[1]
                                     ELSE below]

\* lap_distance_margin
main_lap_distance_margin(rows) ==
    LET max_dist == NanMax([i \in DOMAIN rows |-> rows[i].distance])
        floor == F(1000 * Resolution)
        above == FAdd(max_dist, F(100 * Resolution))
    IN  IF FGt(above, floor) THEN above ELSE floor

\* driver_stats
main_driver_stats(dd, t, margin) ==
    [d \in {e \in DOMAIN dd : Len(dd[e]) > 0} |->
       LET t_arr == [i \in DOMAIN dd[d] |-> dd[d][i].time]
           found == BinSearchRight(t_arr, t, 0, Len(t_arr)) - 1
           idx == IF found < 0 THEN 0
                  ELSE IF found >= Len(t_arr) THEN Len(t_arr) - 1
                  ELSE found
           at == dd[d][idx + 1]
       IN  [time |-> at.time, lap |-> at.lap, distance |-> at.distance,
            xn |-> at.xn, yn |-> at.yn,
            progress_score |-> FAdd(F(at.lap * margin.v), at.distance)]]

\* current_lap
main_current_lap(rows, t) ==
    LET laps == {rows[i].lap : i \in {j \in DOMAIN rows :
                                        FLe(rows[j].time, t)}}
    IN  IF laps = {} THEN 0 ELSE SetMax(laps)

\* the standings that are ranked by progress_score in every frame
main_sorted_by_progress(sess, stats, lap, items) ==
    SortedByReverse(items, [d \in DOMAIN stats |-> stats[d].progress_score])

\* sorted_drivers, of the driver_stats entries in the order items
main_sorted_drivers(sess, stats, lap, items) ==
    IF lap >= TotalLaps(sess)
      THEN SortedBy(items, [d \in DOMAIN stats |-> DriverPosition(sess, d)])
      ELSE SortedByReverse(items,
                           [d \in DOMAIN stats |-> stats[d].progress_score])

\* main.fmt_time
main_fmt_time(s) ==
    IF s.nan THEN "ValueError"
    ELSE LET ss == IF s.v < 0 THEN 0 ELSE s.v
             whole == 60 * Resolution
             millis == RoundHalfEven((ss % whole) * 1000, Resolution)
         IN  ToString(ss \div whole) \o ":" \o Digits2(millis \div 1000)
               \o "." \o Digits3(millis % 1000)

\* gap_str of each entry of the leaderboard
main_gap_strs(stats, ranked) ==
    [pos \in DOMAIN ranked |->
       LET leader_time == stats[ranked[1]].time
           leader_lap == stats[ranked[1]].lap
           tm == stats[ranked[pos]].time
           lap_num == stats[ranked[pos]].lap
           gap_sec == FSub(leader_time, tm)
           tiny == FLt(gap_sec, F(0)) /\ 1000 * gap_sec.v > -Resolution
           shown == IF tiny THEN F(0) ELSE gap_sec
       IN  IF lap_num = leader_lap
             THEN IF pos = 1 THEN ""
                  ELSE " +" \o main_fmt_time(PyMax(F(0), shown))
           ELSE IF leader_lap - lap_num <= 0 THEN ""
           ELSE IF leader_lap - lap_num = 1 THEN " +1 lap"
           ELSE " +" \o ToString(leader_lap - lap_num) \o " laps"]

\* the leaderboard of one frame: ranking, gap labels, and whether drawing it
\* raises
main_leaderboard(sess, rows, dd, t) ==
    LET stats == main_driver_stats(dd, t, main_lap_distance_margin(rows))
        items == SelectSeq(Unique([i \in DOMAIN rows |-> rows[i].driver]),
                           LAMBDA d : d \in DOMAIN stats)
        ranked == main_sorted_drivers(sess, stats, main_current_lap(rows, t),
                                      items)
    IN  [sorted_drivers |-> ranked,
         gap_strs |-> main_gap_strs(stats, ranked),
         raises |-> \E k \in DOMAIN ranked : stats[ranked[k]].time.nan]

-----------------------------------------------------------------------------
(* Specifications *)

\* the whole program on the replayed sessions
Init == InitWith(PlaybackSessions)

Next ==
    \/ LoadData
    \/ StartViewer
    \/ BeginFrame
    \/ Quit
    \/ TogglePlaying
    \/ SpeedUp
    \/ SpeedDown
    \/ PointSizeUp
    \/ PointSizeDown
    \/ ToggleLabels
    \/ ScrubRight
    \/ ScrubLeft
    \/ OtherEvent
    \/ EndPoll
    \/ Advance
    \/ Render
    \/ ExitLoop

Spec == Init /\ [][Next]_vars

\* the whole program on the replayed races
InitRace == InitWith(RaceSessions)

SpecRace == InitRace /\ [][Next]_vars

\* the whole program on the scenario
InitScenario == InitWith(ScenarioSessions)

SpecScenario == InitScenario /\ [][Next]_vars

\* the whole program on the short race
InitControls == InitWith(ControlSessions)

SpecControls == InitControls /\ [][Next]_vars

\* the whole program on the races that decide who is ranked
InitStandings == InitWith(StandingsSessions)

SpecStandings == InitStandings /\ [][Next]_vars

\* the whole program on the race replayed by both viewers
InitCompare == InitWith(CompareSessions)

SpecCompare == InitCompare /\ [][Next]_vars

\* playback left alone by the user, on the sessions with streams
InitStreams == InitWith(StreamSessions)

NextUnattended ==
    \/ LoadData
    \/ StartViewer
    \/ BeginFrame
    \/ EndPoll
    \/ Advance
    \/ Render

SpecStreams == InitStreams /\ [][NextUnattended]_vars

\* playback that is neither paused nor quit, with speed changes, every
\* iteration following the last
NextPlaying ==
    \/ LoadData
    \/ StartViewer
    \/ BeginFrameOn
    \/ SpeedUp
    \/ SpeedDown
    \/ EndPoll
    \/ AdvanceSteadily
    \/ Render

\* the statements of an iteration follow one another without waiting; the
\* drawing is enabled exactly where pc = "render" and leaves it, so its
\* fairness is stated on pc
LoopFairness ==
    /\ WF_vars(BeginFrameOn)
    /\ WF_vars(EndPoll)
    /\ WF_vars(AdvanceSteadily)
    /\ []<>(pc # "render")

SpecPlaying == Init /\ [][NextPlaying]_vars /\ LoopFairness

\* loading alone, on every session of the input domain
InitBuild ==
    /\ \E n \in LapCounts, m \in SessionKinds :
          \E d \in DriverOrders(n), b \in [1 .. n -> LapBodies] :
             InitWith({MkSession(n, d, b, m.timeCol, m.hasDist, m.known)})

NextBuild == LoadData \/ StartViewer

SpecBuild == InitBuild /\ [][NextBuild]_vars

-----------------------------------------------------------------------------
(* Properties *)

\* run_viewer has been entered and has set up the playback state
InViewer == pc \in {"loop", "events", "advance", "render", "quit"}

\* the step handles the event e of the current poll
Handled(e) == pc = "events" /\ polled' = polled + 1 /\ ev' = e

\* a frame has been rendered for the current sim_time
Rendered == pc \in {"loop", "quit"} /\ frame >= 1

\* the time offsets of the Timeline that are numbers
TimelineNumbers ==
    {telemetry.rows[i].time.v :
       i \in {j \in DOMAIN telemetry.rows : ~telemetry.rows[j].time.nan}}

\* C1: sim_time always lies between the smallest and the largest time offset
\* of the Timeline, and starts at the smallest.
C1_ClockWithinTimeline ==
    InViewer =>
      /\ ~sim_time.nan
      /\ TimelineNumbers # {}
      /\ SetMin(TimelineNumbers) <= sim_time.v
      /\ sim_time.v <= SetMax(TimelineNumbers)
      /\ (pc = "loop" /\ frame = 0 => sim_time.v = SetMin(TimelineNumbers))

\* C2: speed starts at 4.0 and stays within [0.125, 128]; a speed-up doubles
\* it, a speed-down halves it, each leaving it unchanged only where the limit
\* would be crossed; no other step of the viewer changes it.
C2_SpeedDoublesOrHalves ==
    /\ [](InViewer => speed > 0 /\ MinSpeed <= speed /\ speed <= MaxSpeed)
    /\ [](pc = "loop" /\ frame = 0 => speed = 4 * Resolution)
    /\ [][InViewer =>
            /\ Handled("K_UP") =>
                 \/ speed' = 2 * speed
                 \/ speed' = speed /\ 2 * speed > 128 * Resolution
            /\ Handled("K_DOWN") =>
                 \/ 2 * speed' = speed
                 \/ speed' = speed /\ 4 * speed < Resolution
            /\ ~Handled("K_UP") /\ ~Handled("K_DOWN") => speed' = speed]_vars

\* a speed-up has been handled and speed is at its upper limit
C2_Witness == pc = "events" /\ ev = "K_UP" /\ speed = MaxSpeed

\* C3: the clock starts Playing; a toggle flips Playing/Paused and no other
\* step - a tick clamped at either end, a scrub, a speed change - changes it.
C3_OnlyToggleChangesPlaying ==
    /\ [](pc = "loop" /\ frame = 0 => playing)
    /\ [][InViewer =>
            IF Handled("K_SPACE") THEN playing' = ~playing
            ELSE playing' = playing]_vars

\* a tick has brought sim_time to the end of the timeline and the clock is
\* still Playing
C3_Witness ==
    /\ pc = "render"
    /\ playing
    /\ FLt(min_time, max_time)
    /\ sim_time = max_time

\* the scrub target: t plus or minus one second, kept within the smallest and
\* largest time offset of the Timeline
ScrubTarget(t, step) ==
    IF t + step > SetMax(TimelineNumbers) THEN SetMax(TimelineNumbers)
    ELSE IF t + step < SetMin(TimelineNumbers) THEN SetMin(TimelineNumbers)
    ELSE t + step

\* C4: a scrub handled while Playing leaves sim_time alone; handled while
\* Paused it moves sim_time by one second, clamped into the Timeline's time
\* range; it changes neither Playing/Paused nor speed.
C4_ScrubOnlyWhilePaused ==
    [][\A k \in {"K_RIGHT", "K_LEFT"} :
         Handled(k) =>
           /\ playing' = playing
           /\ speed' = speed
           /\ playing => sim_time' = sim_time
           /\ ~playing =>
                /\ ~sim_time'.nan
                /\ sim_time'.v =
                     ScrubTarget(sim_time.v,
                                 IF k = "K_RIGHT" THEN Resolution
                                 ELSE -Resolution)]_vars

\* C5 as claimed: once a quit has been handled, no later step changes the
\* playback state.
C5_NothingAfterQuit ==
    [][(InViewer /\ ~running) => (playback' = playback)]_vars

\* C5 as amended: once the iteration in which the quit was handled is over,
\* the only step left is leaving the loop, and it changes nothing of the
\* playback state.
C5_NothingAfterQuitIteration ==
    [][(pc \in {"loop", "quit"} /\ ~running) =>
         (playback' = playback /\ pc' = "quit")]_vars

\* the loop has been left in the iteration in which the quit was handled,
\* after that iteration's tick moved the clock
C5_Witness ==
    pc = "quit" /\ frame = 1 /\ FGt(sim_time, min_time)

\* C6: the smallest time offset of a built Timeline is exactly 0 and the
\* samples are in non-decreasing order of time offset.
C6_TimelineSortedFromZero ==
    telemetry.present =>
      LET rows == telemetry.rows
      IN  /\ \E i \in DOMAIN rows : rows[i].time = F(0)
          /\ \A i \in DOMAIN rows : FLe(F(0), rows[i].time)
          /\ \A i, j \in DOMAIN rows :
                i < j => FLe(rows[i].time, rows[j].time)

\* a raw row that the build should keep: position present, time a number,
\* in a lap whose telemetry is readable, has X/Y and a time column
UsableRow(lap, i) ==
    /\ lap.tel = "ok" /\ lap.hasXY /\ lap.timeCol # "none"
    /\ ~lap.rows[i].X.nan /\ ~lap.rows[i].Y.nan
    /\ ~get_telemetry_time_seconds(lap).t[i].nan

\* C7: every sample of a built Timeline has a position and a time offset
\* that is a number, and the build succeeds whenever a usable row exists.
C7_SamplesValid ==
    pc # "load_data" =>
      /\ telemetry.present =>
           \A i \in DOMAIN telemetry.rows :
              /\ ~telemetry.rows[i].x.nan
              /\ ~telemetry.rows[i].y.nan
              /\ ~telemetry.rows[i].time.nan
      /\ (\E l \in DOMAIN session.laps :
            \E i \in DOMAIN session.laps[l].rows :
               UsableRow(session.laps[l], i)) => telemetry.present

\* no lap of the session yields a sample with a position
NoValidSample(sess) ==
    \A l \in DOMAIN sess.laps :
       LET lap == sess.laps[l]
       IN  \/ lap.tel # "ok" \/ ~lap.hasXY \/ lap.timeCol = "none"
           \/ \A i \in DOMAIN lap.rows : lap.rows[i].X.nan \/ lap.rows[i].Y.nan

RightmostPast(data, i, t) ==
    /\ i \in DOMAIN data
    /\ FLe(data[i].time, t)
    /\ \A j \in DOMAIN data : j > i => ~FLe(data[j].time, t)

\* the snapshot st carries the fields of the sample smp
SameSample(st, smp) ==
    /\ st.time = smp.time /\ st.lap = smp.lap /\ st.distance = smp.distance
    /\ st.xn = smp.xn /\ st.yn = smp.yn

QueryTimes == 0 .. 100

\* C9: for a driver with samples and a time t at or after the driver's first
\* sample, the snapshot is the sample at the rightmost index whose time is at
\* or before t, all its fields taken from that one index.
C9_SnapshotIsRightmostPast ==
    /\ Rendered =>
         \A d \in DOMAIN driver_data :
            (driver_data[d] # <<>> /\ FGe(sim_time, driver_data[d][1].time)) =>
              /\ d \in DOMAIN driver_stats
              /\ \E i \in DOMAIN driver_data[d] :
                    /\ RightmostPast(driver_data[d], i, sim_time)
                    /\ SameSample(driver_stats[d], driver_data[d][i])
    /\ pc = "loop" /\ frame = 0 =>
         \A d \in DOMAIN driver_data, t \in QueryTimes :
            FGe(F(t), driver_data[d][1].time) =>
              RightmostPast(driver_data[d],
                            SnapshotIndex(driver_data[d], F(t)) + 1, F(t))

\* a rendered frame in which one driver is shown at a sample that is neither
\* its first nor its last, or at the later of two samples of equal time
C9_Witness ==
    /\ Rendered
    /\ \E d \in DOMAIN driver_data :
          \E i \in DOMAIN driver_data[d] :
             /\ i > 1
             /\ RightmostPast(driver_data[d], i, sim_time)
             /\ \/ i < Len(driver_data[d])
                \/ driver_data[d][i - 1].time = driver_data[d][i].time

\* C10: for a driver with samples and a time t before the driver's first
\* sample, the snapshot is the driver's first sample, and the driver is ranked.
C10_BeforeFirstSample ==
    /\ Rendered =>
         \A d \in DOMAIN driver_data :
            (driver_data[d] # <<>> /\ FLt(sim_time, driver_data[d][1].time)) =>
              /\ d \in DOMAIN driver_stats
              /\ SameSample(driver_stats[d], driver_data[d][1])
              /\ \E k \in DOMAIN sorted_drivers : sorted_drivers[k] = d
    /\ pc = "loop" /\ frame = 0 =>
         \A d \in DOMAIN driver_data, t \in QueryTimes :
            FLt(F(t), driver_data[d][1].time) =>
              SnapshotIndex(driver_data[d], F(t)) = 0

\* a rendered frame at a time before the first sample of a driver that has
\* later samples
C10_Witness ==
    /\ Rendered
    /\ \E d \in DOMAIN driver_data :
          /\ Len(driver_data[d]) >= 2
          /\ FLt(sim_time, driver_data[d][1].time)
          /\ FLt(driver_data[d][1].time, driver_data[d][2].time)

\* the progress_score of the Timeline sample i
SampleScore(i) ==
    FAdd(F(telemetry.rows[i].lap * LapDistanceMargin(telemetry.rows).v),
         telemetry.rows[i].distance)

\* C11: of two samples of the Timeline, the one on the higher lap has the
\* strictly higher progress_score, whatever their distances.
C11_LapDominatesDistance ==
    InViewer =>
      \A i, j \in DOMAIN telemetry.rows :
         telemetry.rows[i].lap > telemetry.rows[j].lap =>
           FGt(SampleScore(i), SampleScore(j))

\* d is a current leading driver: no snapshot has a higher progress_score
Leading(d) ==
    /\ d \in DOMAIN driver_stats
    /\ \A e \in DOMAIN driver_stats :
          FGe(driver_stats[d].progress_score, driver_stats[e].progress_score)

\* the frame was ranked by final position
Finished == current_lap >= TotalLaps(session)

\* C12: in every frame the standings are those of a finished race exactly
\* when the lap of the current leading driver has reached total_laps.
C12_RegimeFromLeaderLap ==
    Rendered =>
      \A d \in DOMAIN driver_stats :
         Leading(d) => (Finished <=> driver_stats[d].lap >= TotalLaps(session))

\* the progress_score of the driver ranked at position k
RankedScore(k) == driver_stats[sorted_drivers[k]].progress_score

\* C13: in a frame ranked while the race is in progress, a driver listed
\* higher has a progress_score greater than or equal to that of every driver
\* listed lower.
C13_DescendingProgress ==
    (Rendered /\ ~Finished) =>
      \A i, j \in DOMAIN sorted_drivers :
         i < j => FGe(RankedScore(i), RankedScore(j))

\* the session records a final position for driver d
Recorded(d) ==
    /\ \E l \in DOMAIN session.laps : session.laps[l].Driver = d
    /\ ~DriverPosition(session, d).nan

\* C14: in a frame ranked after the finish, the drivers are listed by
\* ascending recorded final position, and no driver without a recorded
\* position is listed above a driver that has one.
C14_FinalClassificationOrder ==
    (Rendered /\ Finished) =>
      \A i, j \in DOMAIN sorted_drivers :
         (i < j /\ Recorded(sorted_drivers[j])) =>
           /\ Recorded(sorted_drivers[i])
           /\ DriverPosition(session, sorted_drivers[i]).v
                <= DriverPosition(session, sorted_drivers[j]).v

\* C15: in a frame ranked while the race is in progress, the ranking does not
\* depend on the order in which the drivers are iterated: ranking them from
\* any other order gives the same list.
C15_RankingIndependentOfListing ==
    (Rendered /\ ~Finished) =>
      \A items \in Perms(StatsItems(telemetry.rows, driver_stats)) :
         Standings(session, driver_stats, current_lap, items) = sorted_drivers

\* the drivers of the session, in their listing order
SessionDrivers ==
    Unique([l \in DOMAIN session.laps |-> session.laps[l].Driver])

\* driver d has no sample in the Timeline
NoSamples(d) == \A i \in DOMAIN telemetry.rows : telemetry.rows[i].driver # d

\* C16: in every frame the drivers of the session without any sample are
\* absent from the ranked list and make up the DNF list, in listing order.
C16_NoTelemetryListedDNF ==
    Rendered =>
      /\ \A k \in DOMAIN sorted_drivers : ~NoSamples(sorted_drivers[k])
      /\ dnf_drivers = SelectSeq(SessionDrivers, NoSamples)

\* the snapshot of the driver ranked at position k
RankedInfo(k) == driver_stats[sorted_drivers[k]]

\* max(0, a - b) of two times
GapSeconds(a, b) == IF a.v - b.v > 0 THEN F(a.v - b.v) ELSE F(0)

\* C17: the rank-1 entry has an empty gap label; every other ranked entry on
\* the leader's lap is labelled with the formatted value of
\* max(0, leader.time - entry.time), which is zero for any difference <= 0.
C17_SameLapGap ==
    Rendered =>
      \A k \in DOMAIN sorted_drivers :
         /\ k = 1 => gap_strs[k] = ""
         /\ (k > 1 /\ RankedInfo(k).lap = RankedInfo(1).lap) =>
              gap_strs[k] =
                " +" \o fmt_time(GapSeconds(RankedInfo(1).time,
                                            RankedInfo(k).time))

\* a frame where a ranked driver on the leader's lap is shown 1.0625 s
\* behind the leader
C17_Witness ==
    /\ Rendered
    /\ \E k \in DOMAIN sorted_drivers :
          /\ k > 1
          /\ RankedInfo(k).lap = RankedInfo(1).lap
          /\ RankedInfo(1).time.v - RankedInfo(k).time.v = 17
          /\ gap_strs[k] = " +0:01.062"

\* leader.lap - entry.lap for the entry ranked at position k
LapsDown(k) == RankedInfo(1).lap - RankedInfo(k).lap

\* C18: a ranked entry on another lap than the rank-1 entry, N laps behind
\* it, is labelled "+1 lap" when N = 1, "+N laps" when N >= 2, and has an
\* empty label when N <= 0.
C18_LapsDownLabel ==
    Rendered =>
      \A k \in DOMAIN sorted_drivers :
         LapsDown(k) # 0 =>
           gap_strs[k] =
             CASE LapsDown(k) = 1 -> " +1 lap"
               [] LapsDown(k) >= 2 -> " +" \o ToString(LapsDown(k)) \o " laps"
               [] OTHER -> ""

\* frames with an entry two laps down, labelled "+2 laps"
C18_Witness ==
    /\ Rendered
    /\ \E k \in DOMAIN sorted_drivers :
          LapsDown(k) = 2 /\ gap_strs[k] = " +2 laps"

\* C19: in every frame no ranked entry is on a later lap than the rank-1
\* entry.
C19_NobodyAheadOfLeader ==
    Rendered => \A k \in DOMAIN sorted_drivers : LapsDown(k) >= 0

\* the snapshot st shows the sample at time t on lap with distance dist
Resolves(st, t, lap, dist) ==
    st.time = F(Sec(t)) /\ st.lap = lap /\ st.distance = F(Sec(dist))

\* C20: in the scenario, whatever the recorded final positions, the frame at
\* sim_time = 12 shows A at (t=10, lap 1, distance 50) and B at
\* (t=0, lap 0, distance 0), ranks A above B and labels B "+1 lap".
C20_ScenarioAtTwelve ==
    (/\ Rendered
     /\ session \in {Scenario(1, 2), Scenario(2, 1)}
     /\ sim_time = F(Sec(12))) =>
      /\ Resolves(driver_stats["VER"], 10, 1, 50)
      /\ Resolves(driver_stats["HAM"], 0, 0, 0)
      /\ sorted_drivers = <<"VER", "HAM">>
      /\ gap_strs = <<"", " +1 lap">>

\* the times at which the event lookups are queried, beside those of the frames
EventQueryTimes == {Sec(k) : k \in -1 .. 9}

\* index of the rightmost event whose offset is at or before t, 0 if none is
Rightmost(ev_times, t) ==
    LET past == {i \in DOMAIN ev_times : FLe(ev_times[i], t)}
    IN  IF past = {} THEN 0 ELSE SetMax(past)

\* the status code and the message that the rightmost-match rule selects at t
RuleStatus(t) ==
    IF Rightmost(status_times, t) = 0 THEN "none"
    ELSE PyStr(status_codes[Rightmost(status_times, t)])
RuleMessage(t) ==
    IF Rightmost(message_times, t) = 0 THEN ""
    ELSE messages[Rightmost(message_times, t)]

\* the lookups at time t follow the rule
LookupFollowsRule(t) ==
    /\ IF RuleStatus(t) = "none"
         THEN SafetyStr(CurrentStatus(status_times, status_codes, t))
                = "Green Flag"
         ELSE CurrentStatus(status_times, status_codes, t) = RuleStatus(t)
    /\ LatestMessage(message_times, messages, t) = RuleMessage(t)

\* C21: the current status code is the code of the rightmost status event
\* whose offset is at or before sim_time, the latest message is chosen by the
\* same rule, and without such an event the label is Green Flag and the
\* message empty; the stream [(0,'1'),(5,'4')] gives '1' at t = 3, '4' (Red
\* Flag) at t = 6 and Green Flag at t = -1.
C21_RightmostEventWins ==
    /\ Rendered =>
         /\ LookupFollowsRule(sim_time)
         /\ RuleStatus(sim_time) = "none" => safety_str = "Green Flag"
         /\ RuleStatus(sim_time) # "none" =>
              current_status = RuleStatus(sim_time)
         /\ last_msg = Truncated(RuleMessage(sim_time))
    /\ pc = "loop" /\ frame = 0 =>
         /\ \A t \in EventQueryTimes : LookupFollowsRule(F(t))
         /\ (/\ status_times = <<F(0), F(Sec(5))>>
             /\ status_codes = <<StrCode("1"), StrCode("4")>>) =>
              /\ CurrentStatus(status_times, status_codes, F(Sec(3))) = "1"
              /\ CurrentStatus(status_times, status_codes, F(Sec(6))) = "4"
              /\ SafetyStr("4") = "Red Flag"
              /\ SafetyStr(CurrentStatus(status_times, status_codes,
                                         F(Sec(-1)))) = "Green Flag"

\* a table without the events whose time is malformed
WellFormed(tab) == SelectSeq(tab, LAMBDA e : EpochSeconds(e.Time).nan = FALSE)

\* the lookups at time t on the streams as they are
StatusNow(t) == CurrentStatus(status_times, status_codes, t)
MessageNow(t) == LatestMessage(message_times, messages, t)

\* the lookups at time t had the malformed events been absent from the session
StatusWithout(t) ==
    LET tab == WellFormed(StatusData(session))
    IN  CurrentStatus(AlignedTimes(tab, telemetry.rows),
                      [i \in DOMAIN tab |-> tab[i].Status], t)
MessageWithout(t) ==
    LET tab == WellFormed(RaceControlMessages(session))
    IN  LatestMessage(AlignedTimes(tab, telemetry.rows),
                      [i \in DOMAIN tab |-> tab[i].Message], t)

\* no event with a NaN offset is the one the lookup selects at t
NeverSelected(ev_times, t) ==
    EventIndex(ev_times, t) >= 0 /\ EventIndex(ev_times, t) < Len(ev_times)
      => ~ev_times[EventIndex(ev_times, t) + 1].nan

\* C23: an event with a malformed timestamp gets a NaN offset and is never
\* selected, and at every time the lookups return what they would return
\* without it, wherever in its stream it sits.
C23_MalformedEventIgnored ==
    InViewer =>
      /\ \A i \in DOMAIN status_times :
            StatusData(session)[i].Time.kind = "malformed"
              => status_times[i].nan
      /\ \A t \in {F(q) : q \in EventQueryTimes} \cup {sim_time} :
            /\ NeverSelected(status_times, t)
            /\ NeverSelected(message_times, t)
            /\ StatusNow(t) = StatusWithout(t)
            /\ MessageNow(t) = MessageWithout(t)
      /\ Rendered =>
            /\ current_status = StatusWithout(sim_time)
            /\ last_msg = Truncated(MessageWithout(sim_time))

StatusLabels ==
    {"Green Flag", "Yellow Flag", "Red Flag", "Safety Car Deployed",
     "Safety Car Reported", "Safety Car Ending", "VSC Deployed"}

\* the label the enumeration gives the code n
LabelOfCode(n) ==
    CASE n = 2 -> "Safety Car Reported"
      [] n = 3 -> "Safety Car Deployed"
      [] n = 4 -> "Red Flag"
      [] n = 5 -> "Yellow Flag"
      [] n \in {6, 8} -> "Safety Car Ending"
      [] n = 7 -> "VSC Deployed"
      [] OTHER -> "Green Flag"

Renders(status, n) ==
    status = ToString(n) \/ status = ToString(n) \o ".0"

C24_MissingStreamNotFatal ==
    /\ (StatusData(session) = <<>> \/ RaceControlMessages(session) = <<>>) =>
         /\ pc \notin {"error", "no_data"}
         /\ InViewer => (running /\ Len(times) >= 1)
    /\ Rendered =>
         /\ StatusData(session) = <<>> =>
              (status_times = <<>> /\ safety_str = "Green Flag")
         /\ RaceControlMessages(session) = <<>> =>
              (message_times = <<>> /\ last_msg = "")

\* a frame drawn after the clock has moved, of a session that has messages
\* and no status table at all
C24_Witness ==
    /\ Rendered
    /\ frame >= 2
    /\ FGt(sim_time, min_time)
    /\ "status_data" \notin DOMAIN session
    /\ last_msg = "LIGHTS OUT"
    /\ safety_str = "Green Flag"

\* the i-th character of a text
CharAt(txt, i) == SubSeq(txt, i, i)

\* C25: the displayed message is the latest message itself when that has at
\* most 40 characters, else its first 37 characters followed by "..."; it
\* never has more than 40 characters.
C25_MessageTruncated ==
    Rendered =>
      LET msg == LatestMessage(message_times, messages, sim_time)
      IN  /\ Len(last_msg) <= 40
          /\ Len(msg) <= 40 => last_msg = msg
          /\ Len(msg) > 40 =>
               /\ Len(last_msg) = 40
               /\ \A i \in 1 .. 37 : CharAt(last_msg, i) = CharAt(msg, i)
               /\ \A i \in 38 .. 40 : CharAt(last_msg, i) = "."

\* a frame whose latest message has 41 characters
C25_Witness ==
    /\ Rendered
    /\ Len(LatestMessage(message_times, messages, sim_time)) = 41
    /\ Len(last_msg) = 40
    /\ last_msg # SubSeq(LatestMessage(message_times, messages, sim_time),
                         1, 40)

\* the command takes the size one step away, or leaves it at the bound
StepOrStay(old, new, step, bound) ==
    new = old + step \/ (new = old /\ old = bound)

\* C26: point size is an integer within [2, 30]; an increase or a decrease
\* command changes it by exactly 1 or leaves it unchanged at the bound, from
\* whatever size within the bounds it is given, and no other step of the
\* viewer changes it.
C26_PointSizeWithinBounds ==
    /\ [](InViewer => point_size \in 2 .. 30)
    /\ [](\A size \in 2 .. 30 :
            /\ Enlarged(size) \in 2 .. 30
            /\ Reduced(size) \in 2 .. 30
            /\ StepOrStay(size, Enlarged(size), 1, 30)
            /\ StepOrStay(size, Reduced(size), -1, 2))
    /\ [][InViewer =>
            /\ Handled("K_PLUS") => StepOrStay(point_size, point_size', 1, 30)
            /\ Handled("K_MINUS") =>
                 StepOrStay(point_size, point_size', -1, 2)
            /\ ~Handled("K_PLUS") /\ ~Handled("K_MINUS") =>
                 point_size' = point_size]_vars

\* the sixth command of a session is a decrease that leaves the size at its
\* lower bound
C26_Witness ==
    /\ pc = "events"
    /\ frame = 3
    /\ polled = 2
    /\ ev = "K_MINUS"
    /\ point_size = 2

\* the Time columns of the session's two streams
StreamTimeColumns ==
    {[i \in DOMAIN StatusData(session) |-> StatusData(session)[i].Time],
     [i \in DOMAIN RaceControlMessages(session) |->
        RaceControlMessages(session)[i].Time]}

\* float seconds of a time value: a number is its own count of seconds, a
\* duration its total seconds, a timestamp its seconds since the epoch
InSeconds(t) == IF t.kind \in TimeKinds THEN F(t.v) ELSE NaN

\* C27: to_epoch_seconds turns a raw number n into n seconds, a duration into
\* its total seconds, a timestamp into its seconds since the epoch and any
\* other value into NaN, one output entry per input entry in the same order.
C27_AllRepresentationsToSeconds ==
    InViewer =>
      \A col \in StreamTimeColumns :
         /\ Len(to_epoch_seconds(col)) = Len(col)
         /\ \A i \in DOMAIN col : to_epoch_seconds(col)[i] = InSeconds(col[i])

\* the times of a table in float seconds, as the viewer normalizes them
Normalized(tab) == to_epoch_seconds([i \in DOMAIN tab |-> tab[i].Time])

\* the offsets the anchoring rule gives the events of a table
AnchoredOffsets(tab) ==
    IF TelemetryHasAbs(telemetry.rows)
      THEN [i \in DOMAIN tab |->
              FSub(Normalized(tab)[i], TelemetryAbsMin(telemetry.rows))]
      ELSE [i \in DOMAIN tab |-> FSub(Normalized(tab)[i], Normalized(tab)[1])]

\* C28: with an absolute time anchor in the Timeline, the offset of every
\* status and message event is its normalized time minus the Timeline's
\* least abs_time; without one, the offsets of each stream are its normalized
\* times minus its own first one, so that the first event of a stream that is
\* not empty has offset 0.
C28_StreamAnchoring ==
    InViewer =>
      /\ status_times = AnchoredOffsets(StatusData(session))
      /\ message_times = AnchoredOffsets(RaceControlMessages(session))
      /\ ~TelemetryHasAbs(telemetry.rows) =>
           /\ StatusData(session) # <<>> => status_times[1] = F(0)
           /\ RaceControlMessages(session) # <<>> => message_times[1] = F(0)

\* the standings list the drivers by descending progress_score
ByProgress(stats, ranked) ==
    \A i, j \in DOMAIN ranked :
       i < j => FGe(stats[ranked[i]].progress_score,
                    stats[ranked[j]].progress_score)

\* C29: every frame takes its snapshots, its regime and its standings from
\* the Timeline and the current sim_time alone, whatever the frames before
\* showed; a frame at an instant where the race is in progress, drawn after a
\* frame that showed the race finished, is ranked by progress_score again.
C29_FrameFromClockAlone ==
    [][pc = "render" =>
         /\ driver_stats' =
              DriverStats(driver_data, sim_time,
                          LapDistanceMargin(telemetry.rows))
         /\ current_lap' = CurrentLap(telemetry.rows, sim_time)
         /\ sorted_drivers' =
              Standings(session, driver_stats',
                        CurrentLap(telemetry.rows, sim_time),
                        StatsItems(telemetry.rows, driver_stats'))
         /\ (CurrentLap(telemetry.rows, sim_time) < TotalLaps(session)) =>
              ByProgress(driver_stats', sorted_drivers')]_vars

\* the clock has been scrubbed back to an instant where the race is in
\* progress, after a frame that showed the final classification
C29_Witness ==
    /\ pc = "render"
    /\ ~playing
    /\ Finished
    /\ sorted_drivers = <<"VER", "HAM">>
    /\ sim_time = F(0)
    /\ CurrentLap(telemetry.rows, sim_time) < TotalLaps(session)

RECURSIVE StableByTime(_)
\* rows in ascending order of time, rows of equal time in the order they
\* have in s, rows without a time last in the order they have in s
StableByTime(s) ==
    LET nums == SelectSeq(s, LAMBDA r : ~r.time.nan)
        nans == SelectSeq(s, LAMBDA r : r.time.nan)
        least == PdMin([i \in DOMAIN nums |-> nums[i].time])
    IN  IF nums = <<>> THEN nans
        ELSE SelectSeq(nums, LAMBDA r : r.time = least)
               \o StableByTime(SelectSeq(nums, LAMBDA r : r.time # least)
                               \o nans)

\* the samples of a driver, without their screen coordinates
TrackOf(rows, d) == SelectSeq(rows, LAMBDA r : r.driver = d)

\* the track carries the samples smp, in their order
SameTrack(track, smp) ==
    /\ Len(track) = Len(smp)
    /\ \A i \in DOMAIN track :
          /\ track[i].time = smp[i].time
          /\ track[i].lap = smp[i].lap
          /\ track[i].distance = smp[i].distance

\* C30: the Timeline is the concatenated samples in ascending order of time
\* with samples of equal time in their order of concatenation, and so is
\* every per-driver track; a driver with two samples at the same time is
\* shown at the one that came later in the input.
C30_StableTimelineSort ==
    InViewer =>
      LET full == NormalizeTime(ConcatFrames(session.laps))
      IN  /\ telemetry.rows = StableByTime(full)
          /\ \A d \in DOMAIN driver_data :
                SameTrack(driver_data[d], StableByTime(TrackOf(full, d)))
          /\ Rendered =>
                \A d \in DOMAIN driver_stats :
                   LET track == StableByTime(TrackOf(full, d))
                   IN  SameTrack(<<driver_stats[d]>>,
                                 <<track[SnapshotIndex(track, sim_time) + 1]>>)

\* the samples a lap contributes to the build, before the Timeline is
\* normalised and sorted
Contributed(lap) == LapFrame(lap)

\* the built Timeline holds the sample with that distance and lap number
InTimeline(smp) ==
    \E i \in DOMAIN telemetry.rows :
       /\ telemetry.rows[i].driver = smp.driver
       /\ telemetry.rows[i].x = smp.x
       /\ telemetry.rows[i].y = smp.y
       /\ telemetry.rows[i].lap = smp.lap
       /\ telemetry.rows[i].distance = smp.distance

\* C31: in a lap without a Distance column every retained sample's distance
\* is its time minus the time of the lap's first retained sample, so the
\* first one is at distance 0 and none is at a negative distance; and a lap
\* whose number is unknown contributes its samples with lap number 0.
C31_DistanceFromLapStart ==
    pc # "load_data" /\ telemetry.present =>
      \A l \in DOMAIN session.laps :
         LET lap == session.laps[l]
             smps == Contributed(lap)
         IN  \A k \in DOMAIN smps :
                /\ InTimeline(smps[k])
                /\ lap.LapNumber.nan => smps[k].lap = 0
                /\ ~lap.hasDist =>
                     /\ smps[k].distance = FSub(smps[k].time, smps[1].time)
                     /\ smps[1].distance = F(0)
                     /\ ~FLt(smps[k].distance, F(0))

\* the step handles a scrub command
Scrubbed == Handled("K_RIGHT") \/ Handled("K_LEFT")

\* C32: while the clock is paused, no step of a frame other than the
\* handling of a scrub command changes sim_time: not the tick, whatever its
\* wall-clock delta, and not a speed, point-size or label command.
C32_PausedClockHolds ==
    [][(InViewer /\ ~playing /\ ~Scrubbed) => sim_time' = sim_time]_vars

\* a paused tick has just passed with the clock inside the timeline, in a
\* run that has changed the point size and hidden the labels
C32_Witness ==
    /\ pc = "render"
    /\ ~playing
    /\ FLt(min_time, sim_time) /\ FLt(sim_time, max_time)
    /\ point_size # DEFAULT_POINT_SIZE
    /\ ~show_labels

\* sim_time is the largest time offset of the Timeline
AtEnd == InViewer /\ ~sim_time.nan /\ ~max_time.nan /\ sim_time.v = max_time.v

\* a tick whose wall-clock delta is not negative
TickForward ==
    /\ pc = "advance"
    /\ \E dt \in {d \in DtValues : d >= 0} :
          sim_time' = Advanced(sim_time, dt, speed)

\* C33: a clock that stays playing, with every wall-clock delta at least a
\* fixed positive amount, brings sim_time to max_time whatever the speed
\* changes; and at max_time a tick of a playing clock whose delta is not
\* negative leaves it there.
C33_PlaybackReachesEnd ==
    /\ InViewer ~> AtEnd
    /\ [][(AtEnd /\ playing /\ TickForward) => AtEnd']_vars

\* the drivers that have at least one sample in the Timeline
DriversWithSamples == {d \in Range(SessionDrivers) : ~NoSamples(d)}

\* C34: in every frame, ranked by progress or by final position, the ranked
\* list holds each driver with at least one sample exactly once and nobody
\* else, at the ranks 1..n with a gap label for each, and shares no driver
\* with the DNF list.
C34_RankedListIsPermutation ==
    Rendered =>
      /\ Range(sorted_drivers) = DriversWithSamples
      /\ Len(sorted_drivers) = Cardinality(DriversWithSamples)
      /\ \A i, j \in DOMAIN sorted_drivers :
            i # j => sorted_drivers[i] # sorted_drivers[j]
      /\ DOMAIN gap_strs = 1 .. Cardinality(DriversWithSamples)
      /\ Range(sorted_drivers) \cap Range(dnf_drivers) = {}

\* a frame ranked by final position that lists two drivers, one of them
\* without a recorded position
C34_Witness ==
    /\ Rendered /\ Finished
    /\ Len(sorted_drivers) >= 2
    /\ \E k \in DOMAIN sorted_drivers : ~Recorded(sorted_drivers[k])

\* 0.125, 0.25, 0.5, 1, 2, 4, 8, 16, 32, 64, 128
Speeds == {(Resolution * n) \div 8 : n \in {1, 2, 4, 8, 16, 32, 64, 128, 256,
                                            512, 1024}}

\* C35: speed is always one of the eleven values 0.125 .. 128; doubling and
\* then halving a speed gives it back except at 128, and halving and then
\* doubling gives it back except at 0.125.
C35_SpeedLadder ==
    InViewer =>
      /\ speed \in Speeds
      /\ Cardinality(Speeds) = 11
      /\ \A s \in Speeds :
            /\ Slower(Faster(s)) = s <=> s # MaxSpeed
            /\ Faster(Slower(s)) = s <=> s # MinSpeed

\* the first poll has handled a speed-up and then a speed-down, and the speed
\* is the initial one again
C35_Witness ==
    /\ pc = "events" /\ frame = 1 /\ polled = 2
    /\ ev = "K_DOWN"
    /\ speed = InitialSpeed

\* window close, Escape, q
QuitEvents == {"QUIT", "K_ESCAPE", "K_q"}

\* C36: handling a quit command clears the loop flag, in whatever state the
\* clock is; from then on no iteration begins and the flag stays cleared, and
\* the loop test that follows the current iteration leaves the loop.
C36_NoIterationAfterQuit ==
    /\ [][(\E e \in QuitEvents : Handled(e)) => ~running']_vars
    /\ [][(InViewer /\ ~running) =>
            /\ frame' = frame
            /\ ~running'
            /\ pc = "loop" => pc' = "quit"]_vars

\* the loop has been left after its second iteration, in which a paused
\* clock had been scrubbed off the start of the timeline
C36_Witness ==
    /\ pc = "quit" /\ frame = 2
    /\ ~playing
    /\ FGt(sim_time, min_time)

\* the playback state the modular viewer holds
Now == PlaybackState(sim_time, playing, speed, point_size, show_labels,
                     running)

\* every kind of event the loop distinguishes
Events ==
    {"QUIT", "K_ESCAPE", "K_q", "K_SPACE", "K_UP", "K_DOWN", "K_PLUS",
     "K_MINUS", "K_l", "K_RIGHT", "K_LEFT", "other"}

\* C37: the viewer of src/viewer.py and the viewer of main.py agree on the
\* clock and on the standings: they enter the loop with the same playback
\* state, and from the same state every event, every tick (for each
\* wall-clock delta) and every frame gives in both the same sim_time,
\* playing flag, speed, point size and loop flag, the same ranking and the
\* same gap labels.
C37_ViewersAgree ==
    [][/\ (pc = "finish_loading" /\ pc' = "loop") =>
             Now' = main_playback_state(times')
       /\ \A e \in Events :
             Handled(e) => Now' = main_handle_event(e, Now, times)
       /\ pc = "advance" =>
             /\ \E dt \in DtValues : Now' = main_tick(Now, dt, times)
             /\ \A dt \in DtValues :
                   main_tick(Now, dt, times).sim_time =
                      IF playing THEN Advanced(sim_time, dt, speed)
                      ELSE sim_time
       /\ pc = "render" =>
             LET board == main_leaderboard(session, telemetry.rows,
                                           driver_data, sim_time)
             IN  /\ sorted_drivers' = board.sorted_drivers
                 /\ gap_strs' = board.gap_strs
                 /\ (pc' = "error") = board.raises
                 /\ Now' = Now
       /\ (pc = "loop" \/ (pc = "events" /\ pc' = "advance")) => Now' = Now
      ]_vars

\* a frame of a paused clock, after a speed and a point-size command, that
\* lists two drivers with a gap label
C37_Witness ==
    /\ Rendered /\ frame >= 2
    /\ ~playing
    /\ speed # InitialSpeed
    /\ point_size # DEFAULT_POINT_SIZE
    /\ Len(sorted_drivers) >= 2
    /\ \E k \in DOMAIN gap_strs : gap_strs[k] # ""

====
